---------------------------- MODULE Spec2Model ----------------------------
(***************************************************************************)
(* The documentation scaffolding tool: ConfigLoader -> ConfigValidator ->   *)
(* StructurePreview (gate) -> StructureBuilder, over a filesystem of        *)
(* directories and files.                                                   *)
(*                                                                          *)
(* Text is a sequence of one-character strings, so that lower-casing,       *)
(* replacement and number formatting are computed and not assumed.  A YAML  *)
(* mapping is a record with a field `keys`, the set of keys it holds; the   *)
(* value of a key it does not hold is never read.                           *)
(***************************************************************************)
EXTENDS Integers, Sequences, FiniteSets, TLC

VARIABLES
    pc,               \* position of the current run of ModularDocInitializer.run
    exit_code,        \* exit status of the last ended run; -1 while none has ended
    config,           \* the parsed YAML document
    imports_template, \* text returned by load_imports_template
    custom_imports,   \* text returned by load_custom_imports
    errors,           \* ConfigValidator.errors
    listing,          \* the items StructurePreview printed, in order
    dirs,             \* filesystem: the directories that exist
    files,            \* filesystem: path -> content of the files that exist
    log,              \* the FileHandler calls of the last build, in order
    fsBefore,         \* the filesystem when the last build started
    lastBuild,        \* inputs of the last completed build, while nothing else changed
    runs,             \* number of runs started so far
    answer,           \* what the last confirmation prompt read
    env,              \* DOC_INIT_AUTO_CONFIRM as the last prompt saw it
    inputs,           \* the files of the current run as its loader found them
    container,        \* argument of _validate_positions (container-level check)
    perrors,          \* errors appended by that one call
    arg,              \* arguments of a generator or naming function (function-level check)
    result            \* what that one call returned

vars == <<pc, exit_code, config, imports_template, custom_imports, errors,
          listing, dirs, files, log, fsBefore, lastBuild, runs, answer, env,
          inputs, container, perrors, arg, result>>

runVars == <<pc, exit_code, config, imports_template, custom_imports, errors,
             listing, dirs, files, log, fsBefore, lastBuild, runs, answer, env,
             inputs>>

-----------------------------------------------------------------------------
(* Bounds of the model *)

\* largest integer a `position` takes in the container-level check
MaxPos == 4
\* largest number of children of the container in the container-level check
MaxChildren == 3
\* deepest subsection nesting below a section in the validated trees
MaxDepth == 2
\* number of runs of the tool in one behaviour
MaxRuns == 2

-----------------------------------------------------------------------------
(* Text *)

Range(s) == {s[i] : i \in DOMAIN s}

Str1(c) == <<c>>

Digit(d) == CASE d = 0 -> "0" [] d = 1 -> "1" [] d = 2 -> "2" [] d = 3 -> "3"
              [] d = 4 -> "4" [] d = 5 -> "5" [] d = 6 -> "6" [] d = 7 -> "7"
              [] d = 8 -> "8" [] d = 9 -> "9"

RECURSIVE NatStr(_)
NatStr(n) == IF n < 10 THEN <<Digit(n)>> ELSE NatStr(n \div 10) \o <<Digit(n % 10)>>

\* str(n) / f"{n}" of an int
IntStr(n) == IF n < 0 THEN <<"-">> \o NatStr(0 - n) ELSE NatStr(n)

\* f"{n:02d}": zero-padded to width 2, the sign counted in the width
Pad2(n) == IF n < 0 THEN IntStr(n)
           ELSE IF n < 10 THEN <<"0">> \o NatStr(n) ELSE NatStr(n)

\* str.lower() on the alphabet of the model
LowerChar(c) == CASE c = "A" -> "a" [] c = "B" -> "b" [] c = "C" -> "c"
                  [] c = "D" -> "d" [] c = "I" -> "i" [] c = "M" -> "m"
                  [] c = "W" -> "w" [] c = "Y" -> "y" [] c = "E" -> "e"
                  [] c = "S" -> "s" [] c = "N" -> "n" [] c = "F" -> "f"
                  [] c = "L" -> "l" [] OTHER -> c

Lower(s) == [i \in DOMAIN s |-> LowerChar(s[i])]

\* str.replace(old, new) for a one-character `old`
RECURSIVE ReplaceChar(_, _, _)
ReplaceChar(s, old, new) ==
    IF s = <<>> THEN <<>>
    ELSE (IF Head(s) = old THEN new ELSE <<Head(s)>>) \o ReplaceChar(Tail(s), old, new)

IsSpace(c) == c \in {" ", "\n", "\t"}

\* str.strip()
RECURSIVE LStrip(_)
LStrip(s) == IF s # <<>> /\ IsSpace(Head(s)) THEN LStrip(Tail(s)) ELSE s

RECURSIVE RStrip(_)
RStrip(s) == IF s # <<>> /\ IsSpace(s[Len(s)]) THEN RStrip(SubSeq(s, 1, Len(s) - 1)) ELSE s

Strip(s) == RStrip(LStrip(s))

\* sorted(set) of a set of integers
RECURSIVE Sorted(_)
Sorted(S) == IF S = {} THEN <<>>
             ELSE LET m == CHOOSE x \in S : \A y \in S : x <= y
                  IN <<m>> \o Sorted(S \ {m})

-----------------------------------------------------------------------------
(* The configuration tree *)

\* values of the `position` key: None (YAML null), an int, a string
PNone == [t |-> "none", v |-> 0]
PInt(n) == [t |-> "int", v |-> n]
PStr == [t |-> "str", v |-> 0]

\* 'k' in item
Has(item, k) == k \in item.keys

\* item.get('position')
GetPosition(item) == IF Has(item, "position") THEN item.position ELSE PNone

\* item.get('files', []) and item.get('subsections', [])
GetFiles(item) == IF Has(item, "files") THEN item.files ELSE <<>>
GetSubsections(item) == IF Has(item, "subsections") THEN item.subsections ELSE <<>>

\* item.get('create_assets', False)
GetCreateAssets(item) == IF Has(item, "create_assets") THEN item.create_assets ELSE FALSE

\* truth value of item.get(k) for the text keys: absent and '' are falsy
TruthyText(item, k) == Has(item, k) /\ item[k] # <<>>

\* truth value of item.get('position'): None, 0 and '' are falsy
TruthyPosition(item) ==
    LET p == GetPosition(item)
    IN (p.t = "int" /\ p.v # 0) \/ p.t = "str"

Unknown == <<"U", "n", "k", "n", "o", "w", "n">>

\* item.get('title', 'Unknown')
TitleOrUnknown(item) == IF Has(item, "title") THEN item.title ELSE Unknown

\* a file, section or subsection mapping; a key outside `keys` holds its default
Node(keys, title, label, position, create_assets, fs, ss) ==
    [keys |-> keys, title |-> title, label |-> label, position |-> position,
     create_assets |-> create_assets, id |-> <<>>, description |-> <<>>,
     initial_content |-> <<>>, collapsible |-> TRUE, collapsed |-> TRUE,
     files |-> fs, subsections |-> ss]

\* the combined list built by the validator, the preview and the builder
AllItems(c) ==
    [i \in 1..Len(GetFiles(c)) |-> <<"file", GetFiles(c)[i]>>]
    \o [i \in 1..Len(GetSubsections(c)) |-> <<"subsection", GetSubsections(c)[i]>>]

-----------------------------------------------------------------------------
(* ConfigValidator *)

\* one entry of ConfigValidator.errors: the check that failed, the context
\* the message starts with (index path and quoted title), the item named,
\* and the sorted lists the range message ends with
Err(kind, path, title, item_type, item_name, missing, extra) ==
    [kind |-> kind, path |-> path, title |-> title, item_type |-> item_type,
     item_name |-> item_name, missing |-> missing, extra |-> extra]

\* isinstance(pos, int) and pos >= 1
IsPositiveInt(p) == p.t = "int" /\ p.v >= 1

\* mutant: the duplicate check takes precedence, the range check is skipped
\* once duplicates are found
PositionValueErrors_duplicate_first(section, path, title) ==
    LET all_items == AllItems(section)
        NotNone(it) == GetPosition(it[2]).t # "none"
        Bad(it) == NotNone(it) /\ ~IsPositiveInt(GetPosition(it[2]))
        Good(it) == NotNone(it) /\ IsPositiveInt(GetPosition(it[2]))
        bad == SelectSeq(all_items, Bad)
        good == SelectSeq(all_items, Good)
        positions == [i \in 1..Len(good) |-> GetPosition(good[i][2]).v]
        expected == 1..Len(all_items)
        actual == Range(positions)
    IN  [i \in 1..Len(bad) |->
            Err("not_positive_int", path, title, bad[i][1],
                TitleOrUnknown(bad[i][2]), <<>>, <<>>)]
        \o (IF Len(positions) # Cardinality(actual)
            THEN <<Err("duplicate", path, title, "", <<>>, <<>>, <<>>)>>
            ELSE <<>>)
        \o (IF Len(positions) = Cardinality(actual) /\ positions # <<>> /\ actual # expected
            THEN <<Err("range", path, title, "", <<>>,
                       Sorted(expected \ actual), Sorted(actual \ expected))>>
            ELSE <<>>)

\* the checks of the declared values, once every child holds the key
PositionValueErrors(section, path, title) ==
    LET all_items == AllItems(section)
        NotNone(it) == GetPosition(it[2]).t # "none"
        Bad(it) == NotNone(it) /\ ~IsPositiveInt(GetPosition(it[2]))
        Good(it) == NotNone(it) /\ IsPositiveInt(GetPosition(it[2]))
        bad == SelectSeq(all_items, Bad)
        good == SelectSeq(all_items, Good)
        positions == [i \in 1..Len(good) |-> GetPosition(good[i][2]).v]
        expected == 1..Len(all_items)
        actual == Range(positions)
    IN  [i \in 1..Len(bad) |->
            Err("not_positive_int", path, title, bad[i][1],
                TitleOrUnknown(bad[i][2]), <<>>, <<>>)]
        \o (IF Len(positions) # Cardinality(actual)
            THEN <<Err("duplicate", path, title, "", <<>>, <<>>, <<>>)>>
            ELSE <<>>)
        \o (IF positions # <<>> /\ actual # expected
            THEN <<Err("range", path, title, "", <<>>,
                       Sorted(expected \ actual), Sorted(actual \ expected))>>
            ELSE <<>>)

\* mutant: the mixed-declaration branch returns without recording its error
_validate_positions_mixed_unrecorded(section, path, title) ==
    LET all_items == AllItems(section)
        HasPos(it) == Has(it[2], "position")
        items_with_position == SelectSeq(all_items, HasPos)
    IN  IF items_with_position = <<>> THEN <<>>
        ELSE IF Len(items_with_position) < Len(all_items) THEN <<>>
        ELSE PositionValueErrors(section, path, title)

_validate_positions(section, path, title) ==
    LET all_items == AllItems(section)
        HasPos(it) == Has(it[2], "position")
        items_with_position == SelectSeq(all_items, HasPos)
    IN  IF items_with_position = <<>> THEN <<>>
        ELSE IF Len(items_with_position) < Len(all_items)
        THEN <<Err("mixed", path, title, "", <<>>, <<>>, <<>>)>>
        ELSE PositionValueErrors(section, path, title)

\* the checks _validate_section makes on the node itself
OwnErrors(section, section_context) ==
    (IF ~TruthyText(section, "title")
     THEN <<Err("title", section_context, <<>>, "", <<>>, <<>>, <<>>)>> ELSE <<>>)
    \o (IF ~TruthyText(section, "label")
        THEN <<Err("label", section_context, <<>>, "", <<>>, <<>>, <<>>)>> ELSE <<>>)
    \o _validate_positions(section, section_context, TitleOrUnknown(section))

\* mutant: the subsections of a node are checked, their own subsections are not
_validate_section_one_level(section, index, context) ==
    LET section_context == Append(context, index)
        subsections == GetSubsections(section)
        RECURSIVE Nested(_)
        Nested(i) == IF i > Len(subsections) THEN <<>>
                     ELSE OwnErrors(subsections[i], Append(section_context, i))
                          \o Nested(i + 1)
    IN  OwnErrors(section, section_context) \o Nested(1)

RECURSIVE _validate_section(_, _, _)
_validate_section(section, index, context) ==
    LET section_context == Append(context, index)
        subsections == GetSubsections(section)
        RECURSIVE Nested(_)
        Nested(i) == IF i > Len(subsections) THEN <<>>
                     ELSE _validate_section(subsections[i], i, section_context)
                          \o Nested(i + 1)
    IN  OwnErrors(section, section_context) \o Nested(1)

\* config.get('sections', [])
GetSections(cfg) == IF Has(cfg, "sections") THEN cfg.sections ELSE <<>>

\* mutant: the positions of the top-level sections are checked like those of
\* the children of a section
ValidateErrors_top_level(cfg) ==
    LET sections == GetSections(cfg)
        RECURSIVE Each(_)
        Each(i) == IF i > Len(sections) THEN <<>>
                   ELSE _validate_section(sections[i], i, <<>>) \o Each(i + 1)
    IN  (IF ~TruthyText(cfg, "section_name")
         THEN <<Err("section_name", <<>>, <<>>, "", <<>>, <<>>, <<>>)>> ELSE <<>>)
        \o (IF sections = <<>>
            THEN <<Err("no_sections", <<>>, <<>>, "", <<>>, <<>>, <<>>)>> ELSE <<>>)
        \o _validate_positions(Node({"subsections"}, <<>>, <<>>, PNone, FALSE, <<>>, sections),
                               <<>>, <<>>)
        \o Each(1)

\* the list self.errors holds when validate returns
ValidateErrors(cfg) ==
    LET sections == GetSections(cfg)
        RECURSIVE Each(_)
        Each(i) == IF i > Len(sections) THEN <<>>
                   ELSE _validate_section(sections[i], i, <<>>) \o Each(i + 1)
    IN  (IF ~TruthyText(cfg, "section_name")
         THEN <<Err("section_name", <<>>, <<>>, "", <<>>, <<>>, <<>>)>> ELSE <<>>)
        \o (IF sections = <<>>
            THEN <<Err("no_sections", <<>>, <<>>, "", <<>>, <<>>, <<>>)>> ELSE <<>>)
        \o Each(1)

\* mutant: validate reports its errors and returns True all the same
validate_always_true(cfg) == TRUE

\* the value validate returns
validate(cfg) == ValidateErrors(cfg) = <<>>

-----------------------------------------------------------------------------
(* FileHandler: names *)

\* mutant: the ampersand is dropped, not spelled out
sanitize_filename_drops_ampersand(title) ==
    ReplaceChar(ReplaceChar(Lower(title), " ", <<"-">>), "&", <<>>)

sanitize_filename(title) ==
    ReplaceChar(ReplaceChar(Lower(title), " ", <<"-">>), "&", <<"a", "n", "d">>)

\* mutant: the name is the slug alone, without the number
generate_numbered_name_unnumbered(index, title, extension) ==
    sanitize_filename(title) \o extension

generate_numbered_name(index, title, extension) ==
    Pad2(index) \o <<"-">> \o sanitize_filename(title) \o extension

MdxExtension == <<".mdx">>
CategoryName == <<"_category_.json">>
AssetsName == <<"assets">>
PLACEHOLDER_FILENAME == <<"__placeholder__">>
PLACEHOLDER_CONTENT ==
    << <<"# Placeholder file for version control">>,
       <<"# This file ensures the assets directory is tracked by git">>,
       <<"# You can delete this file once you add actual assets">> >>
DEFAULT_BASE_PATH == << <<"docs">> >>

\* filename.replace('.mdx', '')
RECURSIVE RemoveMdx(_)
RemoveMdx(name) ==
    IF name = <<>> THEN <<>>
    ELSE IF Head(name) = ".mdx" THEN RemoveMdx(Tail(name))
    ELSE <<Head(name)>> \o RemoveMdx(Tail(name))

\* os.path.join(parent, name): a path is the sequence of its components
Join(parent, name) == Append(parent, name)

-----------------------------------------------------------------------------
(* Generators.  A document is the sequence of its lines; a line is a        *)
(* sequence of pieces, the literals of the code kept whole and the computed *)
(* text character by character.                                             *)

\* f"{value}" of a position value
PositionText(p) ==
    CASE p.t = "int" -> IntStr(p.v)
      [] p.t = "none" -> <<"None">>
      [] p.t = "str" -> <<"first">>

\* json.dumps of a position value
PositionJson(p) ==
    CASE p.t = "int" -> IntStr(p.v)
      [] p.t = "none" -> <<"null">>
      [] p.t = "str" -> <<"\"first\"">>

BoolJson(b) == IF b THEN <<"true">> ELSE <<"false">>

\* mutant: the assigned counter is used whether or not a position is declared
PositionOr_counter(item, position) == PInt(position)

\* item.get('position', position)
PositionOr(item, position) == IF Has(item, "position") THEN item.position ELSE PInt(position)

\* FrontMatterGenerator.generate
generate(item, position) ==
    LET sidebar_position == PositionOr(item, position)
        default_id == sanitize_filename(item.title)
    IN  << <<"---">>,
           <<"id: ">> \o (IF Has(item, "id") THEN item.id ELSE default_id),
           <<"title: ">> \o item.title,
           <<"description: ">> \o (IF Has(item, "description") THEN item.description
                                   ELSE item.title),
           <<"sidebar_position: ">> \o PositionText(sidebar_position),
           <<"---">> >>

\* json.dumps(category, indent=2) of the section template filled in
generate_section_category(section, position) ==
    << <<"{">>,
       <<"  \"label\": \"">> \o section.label \o <<"\",">>,
       <<"  \"position\": ">> \o PositionJson(PositionOr(section, position)) \o <<",">>,
       <<"  \"className\": \"sidebar-header\",">>,
       <<"  \"collapsible\": false">>,
       <<"}">> >>

\* mutant: one flag is read for both settings
generate_subsection_category_coupled(subsection, position) ==
    << <<"{">>,
       <<"  \"label\": \"">> \o subsection.label \o <<"\",">>,
       <<"  \"position\": ">> \o PositionJson(PositionOr(subsection, position)) \o <<",">>,
       <<"  \"collapsible\": ">>
          \o BoolJson(IF Has(subsection, "collapsible") THEN subsection.collapsible ELSE TRUE)
          \o <<",">>,
       <<"  \"collapsed\": ">>
          \o BoolJson(IF Has(subsection, "collapsible") THEN subsection.collapsible ELSE TRUE),
       <<"}">> >>

\* json.dumps(category, indent=2) of the subsection template filled in
generate_subsection_category(subsection, position) ==
    << <<"{">>,
       <<"  \"label\": \"">> \o subsection.label \o <<"\",">>,
       <<"  \"position\": ">> \o PositionJson(PositionOr(subsection, position)) \o <<",">>,
       <<"  \"collapsible\": ">>
          \o BoolJson(IF Has(subsection, "collapsible") THEN subsection.collapsible ELSE TRUE)
          \o <<",">>,
       <<"  \"collapsed\": ">>
          \o BoolJson(IF Has(subsection, "collapsed") THEN subsection.collapsed ELSE TRUE),
       <<"}">> >>

\* ContentGenerator.generate_mdx_content
generate_mdx_content(imports, item, position, custom) ==
    generate(item, position)
    \o << <<>> >>
    \o <<imports>> \o (IF custom # <<>> THEN <<custom>> ELSE <<>>)
    \o << <<>>, <<"# ">> \o item.title >>
    \o (IF Has(item, "initial_content") THEN << <<>>, item.initial_content >> ELSE <<>>)

-----------------------------------------------------------------------------
(* Ordering *)

\* the indices of `keys` in the order a stable sort by key leaves them
RECURSIVE SortIdx(_, _)
SortIdx(keys, S) ==
    IF S = {} THEN <<>>
    ELSE LET m == CHOOSE i \in S :
                     \A j \in S : keys[i] < keys[j] \/ (keys[i] = keys[j] /\ i <= j)
         IN  <<m>> \o SortIdx(keys, S \ {m})

\* whether sorting these position values raises no TypeError: a single value
\* is never compared, integers compare, strings compare, None does not
Comparable(ps) ==
    \/ Len(ps) <= 1
    \/ \A i \in 1..Len(ps) : ps[i].t = "int"
    \/ \A i \in 1..Len(ps) : ps[i].t = "str"

\* sorted(items, key=lambda x: x['position']) with `at` reaching the mapping;
\* ok is FALSE when the sort raises (KeyError, TypeError)
SortByPosition(items, nodes) ==
    IF /\ \A i \in 1..Len(nodes) : Has(nodes[i], "position")
       /\ Comparable([i \in 1..Len(nodes) |-> nodes[i].position])
    THEN LET order == SortIdx([i \in 1..Len(nodes) |-> nodes[i].position.v],
                              1..Len(nodes))
         IN  [ok |-> TRUE, items |-> [k \in 1..Len(items) |-> items[order[k]]]]
    ELSE [ok |-> FALSE, items |-> <<>>]

\* an item of a walk: the mapping with its address in the document (the
\* document-order index of each node on the way down)
Addressed(kind, i, node, parent) ==
    [kind |-> kind, node |-> node, addr |-> Append(parent, [k |-> kind, i |-> i])]

\* StructureBuilder._get_sorted_items and StructurePreview._get_sorted_items
_get_sorted_items(cfg) ==
    LET nodes == GetSections(cfg)
        items == [i \in 1..Len(nodes) |-> Addressed("section", i, nodes[i], <<>>)]
    IN  IF \E i \in 1..Len(nodes) : Has(nodes[i], "position")
        THEN SortByPosition(items, nodes)
        ELSE [ok |-> TRUE, items |-> items]

\* mutant: the subsections are put before the files
ContentItems_subsections_first(c, addr) ==
    LET fs == GetFiles(c)
        ss == GetSubsections(c)
        all_items == [j \in 1..Len(ss) |-> Addressed("subsection", j, ss[j], addr)]
                     \o [i \in 1..Len(fs) |-> Addressed("file", i, fs[i], addr)]
        nodes == ss \o fs
    IN  IF \E i \in 1..Len(nodes) : TruthyPosition(nodes[i])
        THEN SortByPosition(all_items, nodes)
        ELSE [ok |-> TRUE, items |-> all_items]

\* the combined, possibly sorted list of _build_content and _preview_content
ContentItems(c, addr) ==
    LET fs == GetFiles(c)
        ss == GetSubsections(c)
        all_items == [i \in 1..Len(fs) |-> Addressed("file", i, fs[i], addr)]
                     \o [j \in 1..Len(ss) |-> Addressed("subsection", j, ss[j], addr)]
        nodes == fs \o ss
    IN  IF \E i \in 1..Len(nodes) : TruthyPosition(nodes[i])
        THEN SortByPosition(all_items, nodes)
        ELSE [ok |-> TRUE, items |-> all_items]

-----------------------------------------------------------------------------
(* StructureBuilder: the FileHandler calls it makes, in order.  A walk is   *)
(* [ops, ok]: ok is FALSE when it raised (a missing key, a failed sort),    *)
(* and ops are the calls made before that.                                  *)

\* one FileHandler call: create_directory(path) or write_file(path, content,
\* overwrite), with the node it is made for and the counter of that node
Req(op, path, content, overwrite, what, item, index) ==
    [op |-> op, path |-> path, content |-> content, overwrite |-> overwrite,
     what |-> what, addr |-> item.addr, index |-> index]

Raised(ops) == [ops |-> ops, ok |-> FALSE]
Made(ops) == [ops |-> ops, ok |-> TRUE]

\* a, then b unless a raised
Then(a, b) == IF a.ok THEN [b EXCEPT !.ops = a.ops \o @] ELSE a

\* mutant: the placeholder is written with overwrite=True
AssetsOps_overwrites(assets_path, item, index) ==
    << Req("mkdir", assets_path, <<>>, FALSE, "assets", item, index),
       Req("write", Join(assets_path, PLACEHOLDER_FILENAME), PLACEHOLDER_CONTENT, TRUE,
           "placeholder", item, index) >>

\* create_directory(assets_path) and create_placeholder(assets_path)
AssetsOps(assets_path, item, index) ==
    << Req("mkdir", assets_path, <<>>, FALSE, "assets", item, index),
       Req("write", Join(assets_path, PLACEHOLDER_FILENAME), PLACEHOLDER_CONTENT, FALSE,
           "placeholder", item, index) >>

_create_assets_folder(parent_path, item, index) ==
    Made(AssetsOps(Join(parent_path, AssetsName), item, index))

\* mutant: the front matter is generated with position 1 for every file
_build_file_first_position(item, index, parent_path, custom) ==
    LET file_item == item.node
        filename == generate_numbered_name(index, file_item.title, MdxExtension)
        file_path == Join(parent_path, filename)
        content == generate_mdx_content(imports_template, file_item, 1, custom)
        assets_path == Join(Join(parent_path, AssetsName), RemoveMdx(filename))
    IN  IF ~Has(file_item, "title") THEN Raised(<<>>)
        ELSE Made(<<Req("write", file_path, content, FALSE, "mdx", item, index)>>
                  \o (IF GetCreateAssets(file_item)
                      THEN AssetsOps(assets_path, item, index) ELSE <<>>))

_build_file(item, index, parent_path, custom) ==
    LET file_item == item.node
        filename == generate_numbered_name(index, file_item.title, MdxExtension)
        file_path == Join(parent_path, filename)
        content == generate_mdx_content(imports_template, file_item, index, custom)
        assets_path == Join(Join(parent_path, AssetsName), RemoveMdx(filename))
    IN  IF ~Has(file_item, "title") THEN Raised(<<>>)
        ELSE Made(<<Req("write", file_path, content, FALSE, "mdx", item, index)>>
                  \o (IF GetCreateAssets(file_item)
                      THEN AssetsOps(assets_path, item, index) ELSE <<>>))

RECURSIVE _build_subsection(_, _, _, _)
RECURSIVE _build_content(_, _, _)

_build_content(item, container_path, custom) ==
    LET sorted == ContentItems(item.node, item.addr)
        all_items == sorted.items
        RECURSIVE Loop(_)
        Loop(i) ==
            IF i > Len(all_items) THEN Made(<<>>)
            ELSE Then(IF all_items[i].kind = "file"
                      THEN _build_file(all_items[i], i, container_path, custom)
                      ELSE _build_subsection(all_items[i], i, container_path, custom),
                      Loop(i + 1))
    IN  IF sorted.ok THEN Loop(1) ELSE Raised(<<>>)

_build_subsection(item, index, parent_path, custom) ==
    LET subsection == item.node
        subsection_dir == generate_numbered_name(index, subsection.title, <<>>)
        subsection_path == Join(parent_path, subsection_dir)
        mkdir == Req("mkdir", subsection_path, <<>>, FALSE, "container", item, index)
        category == Req("write", Join(subsection_path, CategoryName),
                        generate_subsection_category(subsection, index), TRUE,
                        "category", item, index)
    IN  IF ~Has(subsection, "title") THEN Raised(<<>>)
        ELSE IF ~Has(subsection, "label") THEN Raised(<<mkdir>>)
        ELSE Then(Made(<<mkdir, category>>),
             Then(_build_content(item, subsection_path, custom),
                  IF GetCreateAssets(subsection)
                  THEN _create_assets_folder(subsection_path, item, index)
                  ELSE Made(<<>>)))

_build_section(item, index, parent_path, custom) ==
    LET section == item.node
        section_dir == generate_numbered_name(index, section.title, <<>>)
        section_path == Join(parent_path, section_dir)
        mkdir == Req("mkdir", section_path, <<>>, FALSE, "container", item, index)
        category == Req("write", Join(section_path, CategoryName),
                        generate_section_category(section, index), TRUE,
                        "category", item, index)
    IN  IF ~Has(section, "title") THEN Raised(<<>>)
        ELSE IF ~Has(section, "label") THEN Raised(<<mkdir>>)
        ELSE Then(Made(<<mkdir, category>>),
             Then(_build_content(item, section_path, custom),
                  IF GetCreateAssets(section)
                  THEN _create_assets_folder(section_path, item, index)
                  ELSE Made(<<>>)))

RootItem == [kind |-> "root", node |-> 0, addr |-> <<>>]

build_structure(cfg, base_path, custom) ==
    LET section_path == Join(base_path, cfg.section_name)
        sorted == _get_sorted_items(cfg)
        sections == sorted.items
        RECURSIVE Loop(_)
        Loop(i) == IF i > Len(sections) THEN Made(<<>>)
                   ELSE Then(_build_section(sections[i], i, section_path, custom),
                             Loop(i + 1))
    IN  IF ~Has(cfg, "section_name") THEN Raised(<<>>)
        ELSE Then(Made(<<Req("mkdir", section_path, <<>>, FALSE, "root", RootItem, 0)>>),
                  IF sorted.ok THEN Loop(1) ELSE Raised(<<>>))

-----------------------------------------------------------------------------
(* FileHandler: the calls applied to the filesystem *)

\* os.path.exists(path)
Exists(fs, path) == path \in fs.dirs \/ path \in DOMAIN fs.files

\* the path and every parent of it
Prefixes(path) == {SubSeq(path, 1, k) : k \in 1..Len(path)}

\* mutant: an existing directory is emptied before it is made again
create_directory_fresh(fs, path) ==
    [dirs |-> {d \in fs.dirs : ~(Len(d) > Len(path) /\ SubSeq(d, 1, Len(path)) = path)}
                \cup Prefixes(path),
     files |-> [q \in {r \in DOMAIN fs.files :
                          ~(Len(r) > Len(path) /\ SubSeq(r, 1, Len(path)) = path)}
                  |-> fs.files[q]]]

\* Path(path).mkdir(parents=True, exist_ok=True)
create_directory(fs, path) == [fs EXCEPT !.dirs = @ \cup Prefixes(path)]

\* mutant: the existence test is dropped, every call writes
Writes_always(fs, path, overwrite) == TRUE

\* mutant: the overwrite flag is ignored, an existing file is always skipped
Writes_if_absent(fs, path, overwrite) == ~Exists(fs, path)

\* whether write_file writes (returns True) or skips (returns False)
Writes(fs, path, overwrite) == ~(Exists(fs, path) /\ ~overwrite)

\* mutant: the file is opened and written before the existence test
write_file_unconditional(fs, path, content, overwrite) ==
    [fs EXCEPT !.files = [q \in DOMAIN fs.files \cup {path} |->
                             IF q = path THEN content ELSE fs.files[q]]]

write_file(fs, path, content, overwrite) ==
    IF Writes(fs, path, overwrite)
    THEN [fs EXCEPT !.files = [q \in DOMAIN fs.files \cup {path} |->
                                  IF q = path THEN content ELSE fs.files[q]]]
    ELSE fs

\* what one call did: "mkdir", "write" (Created) or "skip" (Skipped (exists))
Done(fs, r) ==
    [done |-> IF r.op = "mkdir" THEN "mkdir"
              ELSE IF Writes(fs, r.path, r.overwrite) THEN "write" ELSE "skip",
     path |-> r.path, what |-> r.what, addr |-> r.addr, index |-> r.index]

\* the filesystem and the record of the calls after the calls ops[i..]
RECURSIVE ApplyOps(_, _, _, _)
ApplyOps(fs, done, ops, i) ==
    IF i > Len(ops) THEN [fs |-> fs, log |-> done]
    ELSE ApplyOps(IF ops[i].op = "mkdir" THEN create_directory(fs, ops[i].path)
                  ELSE write_file(fs, ops[i].path, ops[i].content, ops[i].overwrite),
                  Append(done, Done(fs, ops[i])), ops, i + 1)

-----------------------------------------------------------------------------
(* StructurePreview: the items it prints, in order; a walk as above *)

\* one _print_item call: the path tested with os.path.exists
Item(path, what, item, index) ==
    [op |-> "print", path |-> path, what |-> what, addr |-> item.addr, index |-> index]

\* mutant: the placeholder is looked up beside the assets folder, not in it
_preview_assets_beside(parent_path, item, index) ==
    LET assets_path == Join(parent_path, AssetsName)
    IN  Made(<< Item(assets_path, "assets", item, index),
                Item(Join(parent_path, PLACEHOLDER_FILENAME), "placeholder", item, index) >>)

_preview_assets(parent_path, item, index) ==
    LET assets_path == Join(parent_path, AssetsName)
    IN  Made(<< Item(assets_path, "assets", item, index),
                Item(Join(assets_path, PLACEHOLDER_FILENAME), "placeholder", item, index) >>)

\* mutant: the preview reads the title with a default and does not raise
_preview_file_tolerant(item, index, parent_path) ==
    LET file_item == item.node
        filename == generate_numbered_name(index, TitleOrUnknown(file_item), MdxExtension)
        file_path == Join(parent_path, filename)
        assets_path == Join(Join(parent_path, AssetsName), RemoveMdx(filename))
    IN  Made(<<Item(file_path, "mdx", item, index)>>
             \o (IF GetCreateAssets(file_item)
                 THEN << Item(assets_path, "assets", item, index),
                         Item(Join(assets_path, PLACEHOLDER_FILENAME), "placeholder",
                              item, index) >>
                 ELSE <<>>))

_preview_file(item, index, parent_path) ==
    LET file_item == item.node
        filename == generate_numbered_name(index, file_item.title, MdxExtension)
        file_path == Join(parent_path, filename)
        assets_path == Join(Join(parent_path, AssetsName), RemoveMdx(filename))
    IN  IF ~Has(file_item, "title") THEN Raised(<<>>)
        ELSE Made(<<Item(file_path, "mdx", item, index)>>
                  \o (IF GetCreateAssets(file_item)
                      THEN << Item(assets_path, "assets", item, index),
                              Item(Join(assets_path, PLACEHOLDER_FILENAME), "placeholder",
                                   item, index) >>
                      ELSE <<>>))

RECURSIVE _preview_subsection(_, _, _)
RECURSIVE _preview_content(_, _)

_preview_content(item, container_path) ==
    LET sorted == ContentItems(item.node, item.addr)
        all_items == sorted.items
        RECURSIVE Loop(_)
        Loop(i) ==
            IF i > Len(all_items) THEN Made(<<>>)
            ELSE Then(IF all_items[i].kind = "file"
                      THEN _preview_file(all_items[i], i, container_path)
                      ELSE _preview_subsection(all_items[i], i, container_path),
                      Loop(i + 1))
    IN  IF sorted.ok THEN Loop(1) ELSE Raised(<<>>)

_preview_subsection(item, index, parent_path) ==
    LET subsection == item.node
        subsection_dir == generate_numbered_name(index, subsection.title, <<>>)
        subsection_path == Join(parent_path, subsection_dir)
    IN  IF ~Has(subsection, "title") THEN Raised(<<>>)
        ELSE Then(Made(<< Item(subsection_path, "container", item, index),
                          Item(Join(subsection_path, CategoryName), "category", item, index) >>),
             Then(_preview_content(item, subsection_path),
                  IF GetCreateAssets(subsection)
                  THEN _preview_assets(subsection_path, item, index)
                  ELSE Made(<<>>)))

_preview_section(item, index, parent_path) ==
    LET section == item.node
        section_dir == generate_numbered_name(index, section.title, <<>>)
        section_path == Join(parent_path, section_dir)
    IN  IF ~Has(section, "title") THEN Raised(<<>>)
        ELSE Then(Made(<< Item(section_path, "container", item, index),
                          Item(Join(section_path, CategoryName), "category", item, index) >>),
             Then(_preview_content(item, section_path),
                  IF GetCreateAssets(section)
                  THEN _preview_assets(section_path, item, index)
                  ELSE Made(<<>>)))

\* the walk of preview_and_confirm, before the prompt
preview(cfg, base_path) ==
    LET section_path == Join(base_path, cfg.section_name)
        sorted == _get_sorted_items(cfg)
        sections == sorted.items
        RECURSIVE Loop(_)
        Loop(i) == IF i > Len(sections) THEN Made(<<>>)
                   ELSE Then(_preview_section(sections[i], i, section_path), Loop(i + 1))
    IN  IF ~Has(cfg, "section_name") THEN Raised(<<>>)
        ELSE Then(Made(<<Item(section_path, "root", RootItem, 0)>>),
                  IF sorted.ok THEN Loop(1) ELSE Raised(<<>>))

\* what the operator answers at the prompt: a line, or end of input
EndOfInput == [eof |-> TRUE, line |-> <<>>]
Line(text) == [eof |-> FALSE, line |-> text]

\* the value of DOC_INIT_AUTO_CONFIRM
Unset == [set |-> FALSE, value |-> <<>>]
SetTo(text) == [set |-> TRUE, value |-> text]

\* mutant: the toggle is consulted first, whether or not a line was read
confirm_toggle_first(reply, toggle) ==
    \/ toggle.set /\ toggle.value = <<"y", "e", "s">>
    \/ ~reply.eof /\ Lower(Strip(reply.line)) \in {<<"y">>, <<"y", "e", "s">>}

\* the value preview_and_confirm returns once the walk is printed
confirm(reply, toggle) ==
    IF ~reply.eof
    THEN Lower(Strip(reply.line)) \in {<<"y">>, <<"y", "e", "s">>}
    ELSE toggle.set /\ toggle.value = <<"y", "e", "s">>

-----------------------------------------------------------------------------
(* DocInitializer, the single-file tool (doc-init.py): its validation, its  *)
(* preview and generate_documentation, as the calls they make in order      *)

\* whether _validate_section_positions (and, for a subsection, the same
\* checks in _validate_subsection_positions_recursive) returns without
\* raising ValueError
RECURSIVE _validate_section_positions(_)
_validate_section_positions(section) ==
    LET all_items == AllItems(section)
        HasPos(it) == Has(it[2], "position")
        NotNone(it) == GetPosition(it[2]).t # "none"
        total_items == Len(all_items)
        items_with_position == Len(SelectSeq(all_items, HasPos))
        given == SelectSeq(all_items, NotNone)
        all_positions == [i \in 1..Len(given) |-> GetPosition(given[i][2]).v]
        subsections == GetSubsections(section)
    IN  /\ ~(items_with_position > 0 /\ items_with_position < total_items)
        /\ items_with_position > 0 =>
              /\ \A i \in 1..Len(given) : IsPositiveInt(GetPosition(given[i][2]))
              /\ Len(all_positions) = Cardinality(Range(all_positions))
              /\ Range(all_positions) = 1..total_items
        /\ \A j \in 1..Len(subsections) : _validate_section_positions(subsections[j])

\* whether _validate_config returns without raising
_validate_config(cfg) ==
    /\ TruthyText(cfg, "section_name")
    /\ GetSections(cfg) # <<>>
    /\ \A i \in 1..Len(GetSections(cfg)) :
          /\ TruthyText(GetSections(cfg)[i], "title")
          /\ TruthyText(GetSections(cfg)[i], "label")
          /\ _validate_section_positions(GetSections(cfg)[i])

\* f"{counter:02d}-{item['title'].lower().replace(' ', '-').replace('&', 'and')}"
NumberedName(counter, item, extension) ==
    Pad2(counter) \o <<"-">>
    \o ReplaceChar(ReplaceChar(Lower(item.title), " ", <<"-">>), "&", <<"a", "n", "d">>)
    \o extension

\* _generate_front_matter
_generate_front_matter(item, position) ==
    LET sidebar_position == IF Has(item, "position") THEN item.position ELSE PInt(position)
    IN  << <<"---">>,
           <<"id: ">> \o (IF Has(item, "id") THEN item.id
                          ELSE ReplaceChar(ReplaceChar(Lower(item.title), " ", <<"-">>),
                                           "&", <<"a", "n", "d">>)),
           <<"title: ">> \o item.title,
           <<"description: ">> \o (IF Has(item, "description") THEN item.description
                                   ELSE item.title),
           <<"sidebar_position: ">> \o PositionText(sidebar_position),
           <<"---">> >>

\* _generate_category_json, for sections and subsections alike
_generate_category_json(section, position) ==
    LET category_position == IF Has(section, "position") THEN section.position
                             ELSE PInt(position)
    IN  << <<"{">>,
           <<"  \"label\": \"">> \o section.label \o <<"\",">>,
           <<"  \"position\": ">> \o PositionJson(category_position) \o <<",">>,
           <<"  \"className\": \"sidebar-header\",">>,
           <<"  \"collapsible\": false">>,
           <<"}">> >>

\* _generate_mdx_content
_generate_mdx_content(item, position, custom) ==
    _generate_front_matter(item, position)
    \o << <<>> >>
    \o <<imports_template>> \o (IF custom # <<>> THEN <<custom>> ELSE <<>>)
    \o << <<>>, <<"# ">> \o item.title >>

\* one call of _create_directory or _write_file, and one path the preview
\* tests with os.path.exists
Call(op, path, content, overwrite, what, index) ==
    [op |-> op, path |-> path, content |-> content, overwrite |-> overwrite,
     what |-> what, addr |-> <<>>, index |-> index]

Shown(path, what, index) ==
    [op |-> "print", path |-> path, what |-> what, addr |-> <<>>, index |-> index]

\* the combined list of files and subsections, sorted by position if any
\* item has a truthy position
all_items_sorted(c) ==
    LET fs == GetFiles(c)
        ss == GetSubsections(c)
        all_items == [i \in 1..Len(fs) |-> [kind |-> "file", node |-> fs[i]]]
                     \o [j \in 1..Len(ss) |-> [kind |-> "subsection", node |-> ss[j]]]
        nodes == fs \o ss
    IN  IF \E i \in 1..Len(nodes) : TruthyPosition(nodes[i])
        THEN SortByPosition(all_items, nodes)
        ELSE [ok |-> TRUE, items |-> all_items]

\* _create_directory(assets_path); _create_placeholder_file(assets_path)
_create_assets(item, assets_path, index) ==
    IF GetCreateAssets(item)
    THEN << Call("mkdir", assets_path, <<>>, FALSE, "assets", index),
            Call("write", Join(assets_path, PLACEHOLDER_FILENAME), PLACEHOLDER_CONTENT,
                 FALSE, "placeholder", index) >>
    ELSE <<>>

\* the assets folder and placeholder the preview tests
_preview_assets_paths(item, assets_path, index) ==
    IF GetCreateAssets(item)
    THEN << Shown(assets_path, "assets", index),
            Shown(Join(assets_path, PLACEHOLDER_FILENAME), "placeholder", index) >>
    ELSE <<>>

\* _process_subsection_content; generate_documentation repeats its body for
\* the content of a section
RECURSIVE _process_subsection_content(_, _, _)
_process_subsection_content(subsection_path, subsection, custom) ==
    LET sorted == all_items_sorted(subsection)
        all_items == sorted.items
        One(counter) ==
            LET item == all_items[counter].node
                filename == NumberedName(counter, item, MdxExtension)
                dir == Join(subsection_path, NumberedName(counter, item, <<>>))
                mkdir == Call("mkdir", dir, <<>>, FALSE, "container", counter)
            IN  IF ~Has(item, "title") THEN Raised(<<>>)
                ELSE IF all_items[counter].kind = "file"
                THEN Made(<<Call("write", Join(subsection_path, filename),
                                 _generate_mdx_content(item, counter, custom), FALSE,
                                 "mdx", counter)>>
                          \o _create_assets(item, Join(Join(subsection_path, AssetsName),
                                                       RemoveMdx(filename)), counter))
                ELSE IF ~Has(item, "label") THEN Raised(<<mkdir>>)
                ELSE Then(Made(<<mkdir,
                                 Call("write", Join(dir, CategoryName),
                                      _generate_category_json(item, counter), TRUE,
                                      "category", counter)>>),
                     Then(_process_subsection_content(dir, item, custom),
                          Made(_create_assets(item, Join(dir, AssetsName), counter))))
        RECURSIVE Loop(_)
        Loop(counter) == IF counter > Len(all_items) THEN Made(<<>>)
                         ELSE Then(One(counter), Loop(counter + 1))
    IN  IF sorted.ok THEN Loop(1) ELSE Raised(<<>>)

\* generate_documentation once the preview is confirmed
generate_documentation(cfg, base_path, custom) ==
    LET section_path == Join(base_path, cfg.section_name)
        sections == GetSections(cfg)
        sorted == IF \E i \in 1..Len(sections) : Has(sections[i], "position")
                  THEN SortByPosition(sections, sections)
                  ELSE [ok |-> TRUE, items |-> sections]
        sorted_sections == sorted.items
        One(i) ==
            LET section == sorted_sections[i]
                section_full_path == Join(section_path, NumberedName(i, section, <<>>))
            IN  Then(Made(<<Call("mkdir", section_full_path, <<>>, FALSE, "container", i),
                            Call("write", Join(section_full_path, CategoryName),
                                 _generate_category_json(section, i), TRUE, "category", i)>>),
                Then(_process_subsection_content(section_full_path, section, custom),
                     Made(_create_assets(section, Join(section_full_path, AssetsName), i))))
        RECURSIVE Loop(_)
        Loop(i) == IF i > Len(sorted_sections) THEN Made(<<>>)
                   ELSE Then(One(i), Loop(i + 1))
    IN  Then(Made(<<Call("mkdir", section_path, <<>>, FALSE, "root", 0)>>),
             IF sorted.ok THEN Loop(1) ELSE Raised(<<>>))

\* _preview_subsection_content
RECURSIVE _preview_subsection_content(_, _)
_preview_subsection_content(subsection_path, subsection) ==
    LET sorted == all_items_sorted(subsection)
        all_items == sorted.items
        One(counter) ==
            LET item == all_items[counter].node
                filename == NumberedName(counter, item, MdxExtension)
                dir == Join(subsection_path, NumberedName(counter, item, <<>>))
            IN  IF ~Has(item, "title") THEN Raised(<<>>)
                ELSE IF all_items[counter].kind = "file"
                THEN Made(<<Shown(Join(subsection_path, filename), "mdx", counter)>>
                          \o _preview_assets_paths(item, Join(Join(subsection_path, AssetsName),
                                                              RemoveMdx(filename)), counter))
                ELSE Then(Made(<<Shown(dir, "container", counter),
                                 Shown(Join(dir, CategoryName), "category", counter)>>),
                     Then(_preview_subsection_content(dir, item),
                          Made(_preview_assets_paths(item, Join(dir, AssetsName), counter))))
        RECURSIVE Loop(_)
        Loop(counter) == IF counter > Len(all_items) THEN Made(<<>>)
                         ELSE Then(One(counter), Loop(counter + 1))
    IN  IF sorted.ok THEN Loop(1) ELSE Raised(<<>>)

\* _preview_subsections: the subsections in document order, numbered from 1
_preview_subsections(parent_path, subsections) ==
    LET One(k) ==
            LET subsection == subsections[k]
                sub_path == Join(parent_path, NumberedName(k, subsection, <<>>))
            IN  IF ~Has(subsection, "title") THEN Raised(<<>>)
                ELSE Then(Made(<<Shown(sub_path, "container", k),
                                 Shown(Join(sub_path, CategoryName), "category", k)>>),
                     Then(_preview_subsection_content(sub_path, subsection),
                          Made(_preview_assets_paths(subsection, Join(sub_path, AssetsName), k))))
        RECURSIVE Loop(_)
        Loop(k) == IF k > Len(subsections) THEN Made(<<>>)
                   ELSE Then(One(k), Loop(k + 1))
    IN  Loop(1)

\* _preview_structure, before the prompt: the sections in document order,
\* the files of each numbered from 1, then its subsections
_preview_structure(cfg, base_path) ==
    LET section_path == Join(base_path, cfg.section_name)
        sections == GetSections(cfg)
        One(i) ==
            LET section == sections[i]
                section_full_path == Join(section_path, NumberedName(i, section, <<>>))
                files_ == section.files
                RECURSIVE Files(_)
                Files(j) ==
                    IF j > Len(files_) THEN Made(<<>>)
                    ELSE IF ~Has(files_[j], "title") THEN Raised(<<>>)
                    ELSE Then(Made(<<Shown(Join(section_full_path,
                                                NumberedName(j, files_[j], MdxExtension)),
                                           "mdx", j)>>
                                   \o _preview_assets_paths(
                                         files_[j],
                                         Join(Join(section_full_path, AssetsName),
                                              RemoveMdx(NumberedName(j, files_[j],
                                                                     MdxExtension))), j)),
                              Files(j + 1))
            IN  Then(Made(<<Shown(section_full_path, "container", i),
                            Shown(Join(section_full_path, CategoryName), "category", i)>>),
                Then(IF Has(section, "files") THEN Files(1) ELSE Made(<<>>),
                Then(IF Has(section, "subsections")
                     THEN _preview_subsections(section_full_path, section.subsections)
                     ELSE Made(<<>>),
                     Made(_preview_assets_paths(section, Join(section_full_path, AssetsName),
                                                i)))))
        RECURSIVE Loop(_)
        Loop(i) == IF i > Len(sections) THEN Made(<<>>)
                   ELSE Then(One(i), Loop(i + 1))
    IN  Then(Made(<<Shown(section_path, "root", 0)>>), Loop(1))

-----------------------------------------------------------------------------
(* Inputs: the containers and the trees the validator is run on *)

\* how a YAML author may write (or leave out) the `position` of one child
Absent == [t |-> "absent", v |-> 0]
PosChoices == {Absent, PNone, PStr} \cup {PInt(n) : n \in 0..MaxPos}

Titled(prefix, i) == <<prefix, Digit(i)>>

\* a file titled F<i> with the position choice p
FileNode(i, p) ==
    Node(IF p = Absent THEN {"title"} ELSE {"title", "position"},
         Titled("F", i), <<>>, IF p = Absent THEN PNone ELSE p, FALSE, <<>>, <<>>)

\* a childless subsection titled S<i> with the position choice p
LeafSubsection(i, p) ==
    Node(IF p = Absent THEN {"title", "label"} ELSE {"title", "label", "position"},
         Titled("S", i), Titled("L", i), IF p = Absent THEN PNone ELSE p,
         FALSE, <<>>, <<>>)

\* the same node with its `position` written as p by its parent's author
WithPosition(node, p) ==
    IF p = Absent THEN node
    ELSE [node EXCEPT !.keys = @ \cup {"position"}, !.position = p]

\* every container with n children, the first nf of them files, and every
\* way of writing their positions
ContainersOf(n, nf) ==
    { Node({"title", "label", "files", "subsections"}, <<"C">>, <<"C">>, PNone, FALSE,
           [i \in 1..nf |-> FileNode(i, ps[i])],
           [j \in 1..(n - nf) |-> LeafSubsection(j, ps[nf + j])])
      : ps \in [1..n -> PosChoices] }

Containers ==
    UNION { UNION { ContainersOf(n, nf) : nf \in 0..n } : n \in 0..MaxChildren }

\* the ways the children of one container of a tree declare positions
Patterns == {"none", "valid", "mixed", "dup", "null"}

\* the position the i-th of n children gets under a pattern
PatternPos(pat, i, n) ==
    CASE pat = "none"  -> Absent
      [] pat = "valid" -> PInt(n + 1 - i)
      [] pat = "mixed" -> IF i = 1 THEN PInt(1) ELSE Absent
      [] pat = "dup"   -> PInt(1)
      [] pat = "null"  -> PNone

\* which of title and label a container carries, with its children's pattern
Shapes ==
    { [keys |-> {"title", "label"}, pat |-> pat] : pat \in Patterns }
    \cup { [keys |-> {"label"}, pat |-> "none"], [keys |-> {"title"}, pat |-> "none"],
           [keys |-> {"label"}, pat |-> "mixed"] }

\* a container titled S<i> with two files and the subsections `subs`
Shaped(shape, i, subs) ==
    LET n == 2 + Len(subs)
    IN  Node(shape.keys \cup {"files", "subsections"}, Titled("S", i), Titled("L", i),
             PNone, FALSE,
             [k \in 1..2 |-> FileNode(k, PatternPos(shape.pat, k, n))],
             [j \in 1..Len(subs) |-> WithPosition(subs[j], PatternPos(shape.pat, 2 + j, n))])

PlainShape == [keys |-> {"title", "label"}, pat |-> "none"]

\* containers whose subsections nest at most d levels deep: childless, or
\* holding one such container, alone or behind a plain sibling
RECURSIVE Trees(_)
Trees(d) ==
    { Shaped(sh, 1, <<>>) : sh \in Shapes }
    \cup (IF d = 0 THEN {}
          ELSE { Shaped(sh, 1, <<sub>>) : sh \in Shapes, sub \in Trees(d - 1) }
               \cup { Shaped(sh, 1, <<Shaped(PlainShape, 1, <<>>), sub>>)
                      : sh \in Shapes, sub \in Trees(d - 1) })

Document(keys, sections) ==
    [keys |-> keys, section_name |-> <<"g">>, sections |-> sections,
     custom_imports_file |-> <<>>]

\* the documents the validator is run on
ValidatedDocuments ==
    { Document(keys, <<>>) : keys \in {{"sections"}, {"section_name", "sections"}, {}} }
    \cup { Document(keys, <<sec>>)
           : keys \in {{"sections"}, {"section_name", "sections"}}, sec \in Trees(MaxDepth) }
    \cup { Document({"section_name", "sections"}, <<Shaped(PlainShape, 1, <<>>), sec>>)
           : sec \in Trees(MaxDepth) }

\* text of the scenario documents
Intro == <<"I", "n", "t", "r", "o">>
Welcome == <<"W", "e", "l", "c", "o", "m", "e">>
DataAndModels == <<"D", "a", "t", "a", " ", "&", " ", "M", "o", "d", "e", "l", "s">>
Setup == <<"S", "e", "t", "u", "p">>
Start == <<"S", "t", "a", "r", "t">>

Guide(keys, sections) ==
    [keys |-> keys \cup {"section_name", "sections"}, section_name |-> <<"guide">>,
     sections |-> sections, custom_imports_file |-> <<"extra.mdx">>]

\* a file with the optional keys given
FileOf(keys, title, p, assets) ==
    Node(keys \cup (IF p = Absent THEN {} ELSE {"position"})
              \cup (IF assets THEN {"create_assets"} ELSE {}),
         title, <<>>, IF p = Absent THEN PNone ELSE p, assets, <<>>, <<>>)

\* a section or subsection with the optional keys given
ContainerOf(title, label, p, assets, fs, ss) ==
    Node({"title", "label", "files", "subsections"}
              \cup (IF p = Absent THEN {} ELSE {"position"})
              \cup (IF assets THEN {"create_assets"} ELSE {}),
         title, label, IF p = Absent THEN PNone ELSE p, assets, fs, ss)

\* section Intro: file Welcome, then subsection Data & Models holding file
\* Setup; pw and pd are the positions of Welcome and of Data & Models
IntroSection(label, pw, pd, assets) ==
    ContainerOf(Intro, label, Absent, assets,
                <<FileOf({"title"}, Welcome, pw, FALSE)>>,
                <<ContainerOf(DataAndModels, DataAndModels, pd, assets,
                              <<FileOf({"title"}, Setup, Absent, assets)>>, <<>>)>>)

\* section Intro holding the one file Welcome, no positions
WelcomeDocument ==
    Guide({}, <<ContainerOf(Intro, Intro, Absent, FALSE,
                            <<FileOf({"title"}, Welcome, Absent, FALSE)>>, <<>>)>>)

\* the documents of the successive runs: the scenario tree; the same with the
\* two children of Intro swapped by position; with another label and assets;
\* with custom imports; one that fails validation (duplicate positions); one
\* that passes validation and whose file Welcome has no title
RunDocuments ==
    { Guide({}, <<IntroSection(Intro, Absent, Absent, FALSE)>>),
      Guide({}, <<IntroSection(Intro, PInt(2), PInt(1), FALSE)>>),
      Guide({}, <<IntroSection(Start, Absent, Absent, TRUE)>>),
      Guide({"custom_imports_file"}, <<IntroSection(Intro, Absent, Absent, FALSE)>>),
      Guide({}, <<IntroSection(Intro, PInt(1), PInt(1), FALSE)>>),
      Guide({}, <<ContainerOf(Intro, Intro, Absent, FALSE,
                              <<FileOf({"title"}, Setup, Absent, FALSE),
                                FileOf({}, <<>>, Absent, FALSE)>>, <<>>)>>) }

\* a section titled Setup holding two files and a subsection all titled
\* Setup, the subsection holding a file Setup; p1, p2, p3 their positions
SetupSection(p1, p2, p3) ==
    ContainerOf(Setup, Setup, Absent, TRUE,
                <<FileOf({"title"}, Setup, p1, TRUE), FileOf({"title"}, Setup, p2, TRUE)>>,
                <<ContainerOf(Setup, Setup, p3, TRUE,
                              <<FileOf({"title"}, Setup, Absent, FALSE)>>, <<>>)>>)

\* two such sections, the children without positions or ordered by them
SameTitleDocuments ==
    { Guide({}, <<SetupSection(Absent, Absent, Absent), SetupSection(Absent, Absent, Absent)>>),
      Guide({}, <<SetupSection(PInt(3), PInt(1), PInt(2)),
                  SetupSection(Absent, Absent, Absent)>>) }

\* the documents of the single run: the trees of the validator, the
\* documents above, the scenario tree with both positions and assets, a
\* lone section whose position is 7 or null, and documents whose top-level
\* sections declare positions
OneRunDocuments ==
    ValidatedDocuments \cup RunDocuments \cup {WelcomeDocument}
    \cup { Guide({}, <<IntroSection(Start, PInt(2), PInt(1), TRUE)>>) }
    \cup { Guide({}, <<ContainerOf(Intro, Start, p, FALSE,
                                   <<FileOf({"title"}, Setup, Absent, FALSE)>>, <<>>)>>)
           : p \in {PInt(7), PNone} }
    \cup { Guide({}, <<ContainerOf(Intro, Intro, p1, TRUE, <<>>, <<>>),
                       ContainerOf(Start, Start, p2, FALSE,
                                   <<FileOf({"title"}, Setup, Absent, TRUE)>>, <<>>)>>)
           : p1 \in {Absent, PInt(2), PInt(1)}, p2 \in {Absent, PInt(1)} }
    \cup SameTitleDocuments

-----------------------------------------------------------------------------
(* Initial values shared by the specifications *)

\* how the loader finds the YAML file and the imports template file
FilesRead == [config |-> "read", imports |-> "read"]
LoadFailures == {"missing", "malformed"}

EmptyDocument == Document({}, <<>>)

NoFiles == [p \in {} |-> <<>>]

EmptyFs == [dirs |-> {}, files |-> NoFiles]

NoBuild == [valid |-> FALSE, repeated |-> FALSE, config |-> EmptyDocument,
            imports_template |-> <<>>, custom_imports |-> <<>>]

InitRun ==
    /\ pc = "idle"
    /\ exit_code = -1
    /\ config = EmptyDocument
    /\ imports_template = <<>>
    /\ custom_imports = <<>>
    /\ errors = <<>>
    /\ listing = <<>>
    /\ dirs = {}
    /\ files = NoFiles
    /\ log = <<>>
    /\ fsBefore = EmptyFs
    /\ lastBuild = NoBuild
    /\ runs = 0
    /\ answer = EndOfInput
    /\ env = Unset
    /\ inputs = FilesRead

\* no function-level call is under way
NoCall == [item |-> Node({}, <<>>, <<>>, PNone, FALSE, <<>>, <<>>), position |-> 0]
NoResult == [done |-> FALSE, fn |-> "", value |-> <<>>]

InitCall ==
    /\ arg = NoCall
    /\ result = NoResult

InitContainer ==
    /\ container = Node({}, <<>>, <<>>, PNone, FALSE, <<>>, <<>>)
    /\ perrors = [done |-> FALSE, errs |-> <<>>]
    /\ InitCall

-----------------------------------------------------------------------------
(* ModularDocInitializer.run, one action per component it calls, and the    *)
(* operator editing a content document between two runs                     *)

base_docs_path == DEFAULT_BASE_PATH

Ended == {"idle", "done", "cancelled", "invalid", "failed"}

\* the imports template file: absent, or holding this text
ImportsFiles == { [exists |-> FALSE, text |-> <<>>],
                  [exists |-> TRUE, text |-> <<" ", "i", "m", "p", "\n">>] }

\* ConfigLoader.load_imports_template
load_imports_template(file) == IF file.exists THEN Strip(file.text) ELSE <<>>

\* the file `custom_imports_file` names: absent, or holding this text
CustomFiles == { [exists |-> FALSE, text |-> <<>>],
                 [exists |-> TRUE, text |-> <<"c", "u", "s", "t", "\n">>] }

\* ConfigLoader.load_custom_imports
load_custom_imports(cfg, file) ==
    IF ~Has(cfg, "custom_imports_file") THEN <<>>
    ELSE IF file.exists THEN Strip(file.text) ELSE <<>>

\* config_loader.load() succeeds, then load_imports_template
Load(doc, file) ==
    /\ pc \in Ended
    /\ runs < MaxRuns
    /\ runs' = runs + 1
    /\ pc' = "loaded"
    /\ exit_code' = -1
    /\ config' = doc
    /\ imports_template' = load_imports_template(file)
    /\ inputs' = [config |-> "read", imports |-> IF file.exists THEN "read" ELSE "missing"]
    /\ custom_imports' = <<>>
    /\ errors' = <<>>
    /\ listing' = <<>>
    /\ UNCHANGED <<dirs, files, log, fsBefore, lastBuild, answer, env, container, perrors, arg, result>>

\* mutant: a failed load is warned about and the run goes on without a document
LoadFails_warns(cause) ==
    /\ pc \in Ended
    /\ runs < MaxRuns
    /\ runs' = runs + 1
    /\ pc' = "loaded"
    /\ exit_code' = -1
    /\ inputs' = [inputs EXCEPT !.config = cause]
    /\ errors' = <<>>
    /\ listing' = <<>>
    /\ UNCHANGED <<config, imports_template, custom_imports, dirs, files, log, fsBefore,
                   lastBuild, answer, env, container, perrors, arg, result>>

\* config_loader.load() raises FileNotFoundError (file missing) or ValueError
\* (malformed YAML); run exits 1
LoadFails(cause) ==
    /\ pc \in Ended
    /\ runs < MaxRuns
    /\ runs' = runs + 1
    /\ pc' = "failed"
    /\ exit_code' = 1
    /\ inputs' = [inputs EXCEPT !.config = cause]
    /\ errors' = <<>>
    /\ listing' = <<>>
    /\ UNCHANGED <<config, imports_template, custom_imports, dirs, files, log, fsBefore,
                   lastBuild, answer, env, container, perrors, arg, result>>

\* mutant: a failed validation returns from run instead of calling sys.exit(1)
Validate_returns_on_failure ==
    /\ pc = "loaded"
    /\ errors' = ValidateErrors(config)
    /\ IF validate(config)
       THEN /\ pc' = "validated"
            /\ exit_code' = exit_code
            /\ \E file \in CustomFiles : custom_imports' = load_custom_imports(config, file)
       ELSE /\ pc' = "invalid"
            /\ exit_code' = 0
            /\ custom_imports' = custom_imports
    /\ UNCHANGED <<config, imports_template, listing, dirs, files, log, fsBefore,
                   lastBuild, runs, answer, env, inputs, container, perrors, arg, result>>

\* validator.validate(config), exit 1 if False, else load_custom_imports
Validate ==
    /\ pc = "loaded"
    /\ errors' = ValidateErrors(config)
    /\ IF validate(config)
       THEN /\ pc' = "validated"
            /\ exit_code' = exit_code
            /\ \E file \in CustomFiles : custom_imports' = load_custom_imports(config, file)
       ELSE /\ pc' = "invalid"
            /\ exit_code' = 1
            /\ custom_imports' = custom_imports
    /\ UNCHANGED <<config, imports_template, listing, dirs, files, log, fsBefore,
                   lastBuild, runs, answer, env, inputs, container, perrors, arg, result>>

\* the items of a walk as printed: each with os.path.exists of its path
Printed(items) ==
    [i \in 1..Len(items) |->
        [path |-> items[i].path, what |-> items[i].what, addr |-> items[i].addr,
         index |-> items[i].index,
         exists |-> Exists([dirs |-> dirs, files |-> files], items[i].path)]]

Answers == { EndOfInput, Line(<<" ", "Y", "\n">>), Line(<<"n">>) }

Envs == { Unset, SetTo(<<"y", "e", "s">>) }

\* previewer.preview_and_confirm(config); return (exit 0) if False; exit 1 if
\* the walk raises.  The environment is read only at end of input.
PreviewAndConfirm(a, e) ==
    /\ pc = "validated"
    /\ LET walk == preview(config, base_docs_path)
       IN  /\ listing' = Printed(walk.ops)
           /\ IF ~walk.ok
              THEN pc' = "failed" /\ exit_code' = 1 /\ UNCHANGED <<answer, env>>
              ELSE /\ answer' = a
                   /\ env' = IF a.eof THEN e ELSE env
                   /\ IF confirm(a, e)
                      THEN pc' = "confirmed" /\ exit_code' = exit_code
                      ELSE pc' = "cancelled" /\ exit_code' = 0
    /\ UNCHANGED <<config, imports_template, custom_imports, errors, dirs, files, log,
                   fsBefore, lastBuild, runs, inputs, container, perrors, arg, result>>

\* an I/O failure (OSError) in the at-th FileHandler call of a build: the
\* call raises having done nothing, or having done part of its work (mkdir
\* has made the parents, open has truncated the file); at = 0: no failure
NoFault == [at |-> 0, partial |-> FALSE]

Faults(ops) == {NoFault} \cup {[at |-> k, partial |-> b] : k \in 1..Len(ops), b \in BOOLEAN}

\* what the call that raises leaves behind
FailedCall(fs, r, partial) ==
    IF ~partial THEN fs
    ELSE IF r.op = "mkdir"
    THEN [fs EXCEPT !.dirs = @ \cup (Prefixes(r.path) \ {r.path})]
    ELSE write_file(fs, r.path, <<>>, r.overwrite)

\* the calls a build makes before it stops: all of them, or those before the
\* one that raises
CallsMade(walk, fault) ==
    IF fault.at = 0 THEN walk.ops ELSE SubSeq(walk.ops, 1, fault.at - 1)

\* whether the at-th call does any I/O that can fail: a skipped write does not
CanFail(fs, ops, fault) ==
    fault.at > 0 =>
        \/ ops[fault.at].op = "mkdir"
        \/ Writes(fs, ops[fault.at].path, ops[fault.at].overwrite)

\* mutant: on an OSError the builder removes what the run has made so far
Build_rolls_back(fault) ==
    /\ pc = "confirmed"
    /\ LET walk == build_structure(config, base_docs_path, custom_imports)
           before == [dirs |-> dirs, files |-> files]
           made == CallsMade(walk, fault)
           reached == ApplyOps(before, <<>>, made, 1)
           after == IF fault.at = 0 THEN reached.fs ELSE before
           completed == walk.ok /\ fault.at = 0
       IN  /\ fault \in Faults(walk.ops)
           /\ CanFail(reached.fs, walk.ops, fault)
           /\ dirs' = after.dirs
           /\ files' = after.files
           /\ log' = reached.log
           /\ fsBefore' = before
           /\ pc' = IF completed THEN "done" ELSE "failed"
           /\ exit_code' = IF completed THEN 0 ELSE 1
           /\ lastBuild' =
                [valid |-> completed,
                 repeated |-> /\ completed
                              /\ lastBuild.valid
                              /\ lastBuild.config = config
                              /\ lastBuild.imports_template = imports_template
                              /\ lastBuild.custom_imports = custom_imports,
                 config |-> config, imports_template |-> imports_template,
                 custom_imports |-> custom_imports]
    /\ UNCHANGED <<config, imports_template, custom_imports, errors, listing, runs,
                   answer, env, inputs, container, perrors, arg, result>>

\* mutant: an I/O failure in the build is taken as a cancellation
Build_cancels(fault) ==
    /\ pc = "confirmed"
    /\ LET walk == build_structure(config, base_docs_path, custom_imports)
           before == [dirs |-> dirs, files |-> files]
           made == CallsMade(walk, fault)
           reached == ApplyOps(before, <<>>, made, 1)
           after == IF fault.at = 0 THEN reached.fs
                    ELSE FailedCall(reached.fs, walk.ops[fault.at], fault.partial)
           completed == walk.ok /\ fault.at = 0
       IN  /\ fault \in Faults(walk.ops)
           /\ CanFail(reached.fs, walk.ops, fault)
           /\ dirs' = after.dirs
           /\ files' = after.files
           /\ log' = reached.log
           /\ fsBefore' = before
           /\ pc' = IF completed THEN "done" ELSE "cancelled"
           /\ exit_code' = IF completed THEN 0 ELSE 0
           /\ lastBuild' =
                [valid |-> completed,
                 repeated |-> /\ completed
                              /\ lastBuild.valid
                              /\ lastBuild.config = config
                              /\ lastBuild.imports_template = imports_template
                              /\ lastBuild.custom_imports = custom_imports,
                 config |-> config, imports_template |-> imports_template,
                 custom_imports |-> custom_imports]
    /\ UNCHANGED <<config, imports_template, custom_imports, errors, listing, runs,
                   answer, env, inputs, container, perrors, arg, result>>

\* builder.build_structure(config, base_docs_path, custom_imports); exit 1 if
\* it raises (a missing key, a failed sort, an I/O failure), else run returns
\* (exit 0)
Build(fault) ==
    /\ pc = "confirmed"
    /\ LET walk == build_structure(config, base_docs_path, custom_imports)
           before == [dirs |-> dirs, files |-> files]
           made == CallsMade(walk, fault)
           reached == ApplyOps(before, <<>>, made, 1)
           after == IF fault.at = 0 THEN reached.fs
                    ELSE FailedCall(reached.fs, walk.ops[fault.at], fault.partial)
           completed == walk.ok /\ fault.at = 0
       IN  /\ fault \in Faults(walk.ops)
           /\ CanFail(reached.fs, walk.ops, fault)
           /\ dirs' = after.dirs
           /\ files' = after.files
           /\ log' = reached.log
           /\ fsBefore' = before
           /\ pc' = IF completed THEN "done" ELSE "failed"
           /\ exit_code' = IF completed THEN 0 ELSE 1
           /\ lastBuild' =
                [valid |-> completed,
                 repeated |-> /\ completed
                              /\ lastBuild.valid
                              /\ lastBuild.config = config
                              /\ lastBuild.imports_template = imports_template
                              /\ lastBuild.custom_imports = custom_imports,
                 config |-> config, imports_template |-> imports_template,
                 custom_imports |-> custom_imports]
    /\ UNCHANGED <<config, imports_template, custom_imports, errors, listing, runs,
                   answer, env, inputs, container, perrors, arg, result>>

IsMdx(path) == path # <<>> /\ path[Len(path)] # <<>>
               /\ path[Len(path)][Len(path[Len(path)])] = ".mdx"

Edited == << <<"hand-written">> >>

\* between two runs, the operator rewrites a content document by hand
ManualEdit(path) ==
    /\ pc \in Ended
    /\ path \in DOMAIN files
    /\ IsMdx(path)
    /\ files[path] # Edited
    /\ files' = [files EXCEPT ![path] = Edited]
    /\ lastBuild' = [lastBuild EXCEPT !.valid = FALSE, !.repeated = FALSE]
    /\ UNCHANGED <<pc, exit_code, config, imports_template, custom_imports, errors,
                   listing, dirs, log, fsBefore, runs, answer, env, inputs,
                   container, perrors, arg, result>>

\* DocInitializer.__init__ after the files are read: _validate_config raises
\* ValueError, which main() turns into exit status 1, or returns
DocInitConstruct ==
    /\ pc = "loaded"
    /\ IF _validate_config(config)
       THEN pc' = "validated" /\ exit_code' = exit_code
       ELSE pc' = "failed" /\ exit_code' = 1
    /\ UNCHANGED <<config, imports_template, custom_imports, errors, listing, dirs, files,
                   log, fsBefore, lastBuild, runs, answer, env, inputs, container, perrors,
                   arg, result>>

\* _preview_structure: the walk, then the prompt; end of input raises
\* EOFError (exit status 1), any answer but y / yes cancels
DocInitPreview(a) ==
    /\ pc = "validated"
    /\ LET walk == _preview_structure(config, base_docs_path)
       IN  /\ listing' = Printed(walk.ops)
           /\ IF ~walk.ok \/ a.eof
              THEN pc' = "failed" /\ exit_code' = 1 /\ answer' = answer
              ELSE /\ answer' = a
                   /\ IF Lower(Strip(a.line)) \in {<<"y">>, <<"y", "e", "s">>}
                      THEN pc' = "confirmed" /\ exit_code' = exit_code
                      ELSE pc' = "cancelled" /\ exit_code' = 0
    /\ UNCHANGED <<config, imports_template, custom_imports, errors, dirs, files, log,
                   fsBefore, lastBuild, runs, env, inputs, container, perrors, arg, result>>

\* the rest of generate_documentation: the custom imports are read, then the
\* tree is made; an exception gives exit status 1
DocInitGenerate ==
    /\ pc = "confirmed"
    /\ \E file \in CustomFiles :
          LET custom == load_custom_imports(config, file)
              walk == generate_documentation(config, base_docs_path, custom)
              before == [dirs |-> dirs, files |-> files]
              reached == ApplyOps(before, <<>>, walk.ops, 1)
          IN  /\ custom_imports' = custom
              /\ dirs' = reached.fs.dirs
              /\ files' = reached.fs.files
              /\ log' = reached.log
              /\ fsBefore' = before
              /\ pc' = IF walk.ok THEN "done" ELSE "failed"
              /\ exit_code' = IF walk.ok THEN 0 ELSE 1
    /\ UNCHANGED <<config, imports_template, errors, listing, lastBuild, runs, answer, env,
                   inputs, container, perrors, arg, result>>

-----------------------------------------------------------------------------
(* Specifications *)

(* _validate_positions alone, on every container of Containers *)

ValidatePositions ==
    /\ ~perrors.done
    /\ perrors' = [done |-> TRUE,
                   errs |-> _validate_positions(container, <<1>>, TitleOrUnknown(container))]
    /\ UNCHANGED <<container, arg, result, runVars>>

InitPositions ==
    /\ InitRun
    /\ InitCall
    /\ container \in Containers
    /\ perrors = [done |-> FALSE, errs |-> <<>>]

NextPositions == ValidatePositions

SpecPositions == InitPositions /\ [][NextPositions]_vars

(* The generators and the naming functions alone, each applied once to a    *)
(* node mapping and a counter                                               *)

\* titles: the scenario's, one with runs of spaces and ampersands, one that
\* is already a slug, one of digits and punctuation
AmpersandRun == <<"A", "&", "&", " ", " ", "B">>
AlreadySlug == <<"d", "a", "t", "a", "-", "a", "n", "d">>
Punctuated == <<"F", "1", ".", "_", "-">>
Titles == {DataAndModels, Setup, AmpersandRun, AlreadySlug, Punctuated}

CustomId == <<"m", "y", "-", "i", "d">>
CustomDescription == <<"A", "l", "l", " ", "&">>

\* the counters a walk hands to the generators: one digit, two digits
Counters == {1, 3, 12}

\* a node mapping titled `title` holding the optional keys `opt`, its
\* position written as p
CallItem(title, opt, p, c1, c2) ==
    [Node({"title", "label"} \cup opt \cup (IF p = Absent THEN {} ELSE {"position"}),
          title, title, IF p = Absent THEN PNone ELSE p, FALSE, <<>>, <<>>)
     EXCEPT !.id = CustomId, !.description = CustomDescription,
            !.collapsible = c1, !.collapsed = c2]

GeneratorCalls ==
    { [item |-> CallItem(title, opt, p, c1, c2), position |-> n]
      : title \in Titles,
        opt \in {{}, {"id"}, {"description"}, {"id", "description"},
                 {"collapsible"}, {"collapsed"}, {"collapsible", "collapsed"}},
        p \in {Absent, PInt(1), PInt(5), PNone},
        c1 \in BOOLEAN, c2 \in BOOLEAN, n \in Counters }

Returned(fn, value) ==
    /\ ~result.done
    /\ result' = [done |-> TRUE, fn |-> fn, value |-> value]
    /\ UNCHANGED <<arg, container, perrors, runVars>>

Generate == Returned("generate", generate(arg.item, arg.position))

GenerateSectionCategory ==
    Returned("generate_section_category", generate_section_category(arg.item, arg.position))

GenerateSubsectionCategory ==
    Returned("generate_subsection_category",
             generate_subsection_category(arg.item, arg.position))

SanitizeFilename == Returned("sanitize_filename", sanitize_filename(arg.item.title))

GenerateNumberedName(extension) ==
    Returned(IF extension = <<>> THEN "generate_numbered_name"
             ELSE "generate_numbered_name.mdx",
             generate_numbered_name(arg.position, arg.item.title, extension))

InitGenerators ==
    /\ InitRun
    /\ container = Node({}, <<>>, <<>>, PNone, FALSE, <<>>, <<>>)
    /\ perrors = [done |-> FALSE, errs |-> <<>>]
    /\ arg \in GeneratorCalls
    /\ result = NoResult

NextGenerators ==
    \/ Generate
    \/ GenerateSectionCategory
    \/ GenerateSubsectionCategory
    \/ SanitizeFilename
    \/ \E extension \in {<<>>, MdxExtension} : GenerateNumberedName(extension)

SpecGenerators == InitGenerators /\ [][NextGenerators]_vars

(* One run on an empty filesystem, from the loaded document on, for every   *)
(* document of OneRunDocuments                                              *)

InitOneRun ==
    /\ InitContainer
    /\ pc = "loaded"
    /\ exit_code = -1
    /\ config \in OneRunDocuments
    /\ imports_template = <<"i", "m", "p">>
    /\ custom_imports = <<>>
    /\ errors = <<>>
    /\ listing = <<>>
    /\ dirs = {}
    /\ files = NoFiles
    /\ log = <<>>
    /\ fsBefore = EmptyFs
    /\ lastBuild = NoBuild
    /\ runs = 1
    /\ answer = EndOfInput
    /\ env = Unset
    /\ inputs = FilesRead

NextOneRun ==
    \/ Validate
    \/ \E a \in {Line(<<" ", "Y", "\n">>), Line(<<"n">>)} : PreviewAndConfirm(a, Unset)
    \/ Build(NoFault)

SpecOneRun == InitOneRun /\ [][NextOneRun]_vars

(* One run as above on the documents of RunDocuments, for every answer at   *)
(* the prompt and every value of DOC_INIT_AUTO_CONFIRM in the environment   *)
(* the run was started with                                                 *)

PromptAnswers ==
    { EndOfInput, Line(<<"y">>), Line(<<" ", "Y", " ">>), Line(<<"Y", "e", "s">>),
      Line(<<"y", "e", "s">>), Line(<<"n">>), Line(<<>>), Line(<<"y", "e">>),
      Line(<<"y", " ", "e", "s">>), Line(<<"N", "\t">>) }

Environments ==
    { Unset, SetTo(<<"y", "e", "s">>), SetTo(<<"Y", "E", "S">>), SetTo(<<"y">>),
      SetTo(<<" ", "y", "e", "s">>), SetTo(<<>>) }

InitConfirm ==
    /\ InitContainer
    /\ pc = "loaded"
    /\ exit_code = -1
    /\ config \in RunDocuments
    /\ imports_template = <<"i", "m", "p">>
    /\ custom_imports = <<>>
    /\ errors = <<>>
    /\ listing = <<>>
    /\ dirs = {}
    /\ files = NoFiles
    /\ log = <<>>
    /\ fsBefore = EmptyFs
    /\ lastBuild = NoBuild
    /\ runs = 1
    /\ answer = EndOfInput
    /\ env \in Environments
    /\ inputs = FilesRead

NextConfirm ==
    \/ Validate
    \/ \E a \in PromptAnswers : PreviewAndConfirm(a, env)
    \/ Build(NoFault)

SpecConfirm == InitConfirm /\ [][NextConfirm]_vars

(* One run as above on the documents of RunDocuments, on an empty           *)
(* filesystem or on the tree a build of the scenario document left, hand-   *)
(* edited or not, in which any FileHandler call of the build may fail       *)

ScenarioDocument == Guide({}, <<IntroSection(Intro, Absent, Absent, FALSE)>>)

\* the scenario tree with assets for the section, the subsection and Setup
AssetsDocument == Guide({}, <<IntroSection(Start, Absent, Absent, TRUE)>>)

\* the scenario tree with assets for the file Welcome and the subsection only
FileAssetsDocument ==
    Guide({}, <<ContainerOf(Intro, Intro, Absent, FALSE,
                            <<FileOf({"title"}, Welcome, Absent, TRUE)>>,
                            <<ContainerOf(DataAndModels, DataAndModels, Absent, TRUE,
                                          <<FileOf({"title"}, Setup, Absent, FALSE)>>,
                                          <<>>)>>)>>)

FaultyDocuments == RunDocuments \cup {FileAssetsDocument}

\* the filesystem after a complete build of cfg on an empty filesystem
BuiltFrom(cfg) == ApplyOps(EmptyFs, <<>>, build_structure(cfg, base_docs_path, <<>>).ops, 1).fs

\* the same with every content document and placeholder rewritten by hand
HandEdited(fs) ==
    [fs EXCEPT !.files = [q \in DOMAIN fs.files |->
                             IF IsMdx(q) \/ q[Len(q)] = PLACEHOLDER_FILENAME
                             THEN Edited ELSE fs.files[q]]]

InitFaulty ==
    /\ InitContainer
    /\ pc = "loaded"
    /\ exit_code = -1
    /\ config \in FaultyDocuments
    /\ imports_template = <<"i", "m", "p">>
    /\ custom_imports = <<>>
    /\ errors = <<>>
    /\ listing = <<>>
    /\ \E fs \in {EmptyFs, BuiltFrom(ScenarioDocument), HandEdited(BuiltFrom(ScenarioDocument)),
                  HandEdited(BuiltFrom(AssetsDocument))} :
          dirs = fs.dirs /\ files = fs.files
    /\ log = <<>>
    /\ fsBefore = EmptyFs
    /\ lastBuild = NoBuild
    /\ runs = 1
    /\ answer = EndOfInput
    /\ env = Unset
    /\ inputs = FilesRead

NextFaulty ==
    \/ Validate
    \/ \E a \in {Line(<<"y">>), Line(<<"n">>)} : PreviewAndConfirm(a, Unset)
    \/ \E fault \in Faults(build_structure(config, base_docs_path, custom_imports).ops) :
          Build(fault)

SpecFaulty == InitFaulty /\ [][NextFaulty]_vars

\* run() is at a call it has still to make: validate, preview_and_confirm,
\* build_structure
Running == {"loaded", "validated", "confirmed"}

\* the call returns or raises, and run() moves on or exits
Proceeds == pc \in Running /\ pc' \in (Running \cup Ended) \ {pc}

\* the same run under the scheduling of run(): its statements follow one
\* another without waiting, and the prompt gets a line or end of input
SpecFaultyFair == SpecFaulty /\ WF_pc(Proceeds)

(* One run of the single-file tool on an empty filesystem, for every        *)
(* document of OneRunDocuments                                              *)

NextDocInit ==
    \/ DocInitConstruct
    \/ \E a \in {Line(<<" ", "Y", "\n">>), Line(<<"n">>), EndOfInput} : DocInitPreview(a)
    \/ DocInitGenerate

SpecDocInit == InitOneRun /\ [][NextDocInit]_vars

(* Successive runs of the tool on one filesystem, with hand edits between   *)

Init == InitRun /\ InitContainer

Next ==
    \/ \E doc \in RunDocuments, file \in ImportsFiles : Load(doc, file)
    \/ \E cause \in LoadFailures : LoadFails(cause)
    \/ Validate
    \/ \E a \in Answers, e \in Envs : PreviewAndConfirm(a, e)
    \/ Build(NoFault)
    \/ \E path \in DOMAIN files : ManualEdit(path)

Spec == Init /\ [][Next]_vars

-----------------------------------------------------------------------------
(* Vocabulary of the claims about validation *)

\* the containers of a document, each with its index path (section index,
\* then the index of each subsection on the way down)
RECURSIVE Below(_, _)
Below(node, path) ==
    {[path |-> path, node |-> node]}
    \cup UNION { Below(GetSubsections(node)[j], Append(path, j))
                 : j \in 1..Len(GetSubsections(node)) }

DocContainers(cfg) ==
    UNION { Below(GetSections(cfg)[i], <<i>>) : i \in 1..Len(GetSections(cfg)) }

Children(c) == GetFiles(c) \o GetSubsections(c)

Declares(child) == Has(child, "position")

EveryChildDeclares(c) == \A i \in 1..Len(Children(c)) : Declares(Children(c)[i])
NoChildDeclares(c) == \A i \in 1..Len(Children(c)) : ~Declares(Children(c)[i])
MixedDeclaration(c) == ~EveryChildDeclares(c) /\ ~NoChildDeclares(c)

\* the declared positions are the integers 1..N, each once
ExactlyOneToN(c) ==
    /\ \A i \in 1..Len(Children(c)) : Children(c)[i].position.t = "int"
    /\ {Children(c)[i].position.v : i \in 1..Len(Children(c))} = 1..Len(Children(c))

\* the integers declared by the children of c
DeclaredInts(c) ==
    {Children(c)[i].position.v :
        i \in {k \in 1..Len(Children(c)) :
                 Declares(Children(c)[k]) /\ Children(c)[k].position.t = "int"}}

ErrorsAt(errs, path) == {errs[i] : i \in {k \in 1..Len(errs) : errs[k].path = path}}

\* validate has returned in this run
Validated == pc \notin {"idle", "loaded"}

\* validate returned False: the run ended with exit status 1 before the preview
Rejected == pc = "invalid"

-----------------------------------------------------------------------------
(* C4: for a container whose children all declare `position`,               *)
(* _validate_positions reports no error if and only if the declared         *)
(* positions are exactly 1..N without duplicates, and otherwise an entry    *)
(* lists every missing value of 1..N and every declared value outside 1..N. *)
(* The code accepts a container whose children all declare a null position. *)
C4_ExactOrReported ==
    (perrors.done /\ EveryChildDeclares(container)) =>
        /\ (perrors.errs = <<>>) <=> ExactlyOneToN(container)
        /\ ~ExactlyOneToN(container) =>
             \E i \in 1..Len(perrors.errs) :
                /\ Range(perrors.errs[i].missing)
                     = (1..Len(Children(container))) \ DeclaredInts(container)
                /\ Range(perrors.errs[i].extra)
                     = DeclaredInts(container) \ (1..Len(Children(container)))

(* C5: every container in which some child declares `position` and some     *)
(* child does not makes validation fail with a mixed-declaration entry that *)
(* names the container (its index path and its title).                      *)
C5_MixedReported ==
    Validated =>
        \A c \in DocContainers(config) :
            MixedDeclaration(c.node) =>
                /\ Rejected
                /\ \E e \in ErrorsAt(errors, c.path) :
                      e.kind = "mixed" /\ e.title = TitleOrUnknown(c.node)

C5_Witness ==
    /\ Rejected
    /\ \E c \in DocContainers(config) :
          /\ Len(c.path) = 3
          /\ MixedDeclaration(c.node)
          /\ Len(GetSubsections(c.node)) = 0

(* C6: every violated check of every container has its own entry in the     *)
(* error list, and validate returns False exactly when the list is not      *)
(* empty.  A container whose children all declare a null position violates  *)
(* the positive-integer and the 1..N checks and gets no entry.              *)
C6_EveryViolationReported ==
    Validated =>
        /\ Rejected <=> (errors # <<>>)
        /\ ~TruthyText(config, "section_name")
              => \E i \in 1..Len(errors) : errors[i].kind = "section_name"
        /\ GetSections(config) = <<>>
              => \E i \in 1..Len(errors) : errors[i].kind = "no_sections"
        /\ \A c \in DocContainers(config) :
              LET at == ErrorsAt(errors, c.path)
                  kids == Children(c.node)
                  Reported(kind) == \E e \in at : e.kind = kind
                  declared == ~NoChildDeclares(c.node) /\ ~MixedDeclaration(c.node)
              IN  /\ ~TruthyText(c.node, "title") => Reported("title")
                  /\ ~TruthyText(c.node, "label") => Reported("label")
                  /\ MixedDeclaration(c.node) => Reported("mixed")
                  /\ (declared /\ \E i \in 1..Len(kids) : ~IsPositiveInt(kids[i].position))
                        => Reported("not_positive_int")
                  /\ (declared /\ \E i, j \in 1..Len(kids) :
                                      i # j /\ kids[i].position = kids[j].position
                                      /\ kids[i].position.t = "int")
                        => Reported("duplicate")
                  /\ (declared /\ ~ExactlyOneToN(c.node)) => Reported("range")

-----------------------------------------------------------------------------
(* Vocabulary of the claims about the build *)

\* the address the walks give the container with this index path
AddrOfPath(path) ==
    [n \in 1..Len(path) |-> [k |-> IF n = 1 THEN "section" ELSE "subsection", i |-> path[n]]]

\* the entries of the last build's record made for this node, of this sort
Entries(addr, what) == {n \in 1..Len(log) : log[n].addr = addr /\ log[n].what = what}

PathsOf(seq) == [n \in 1..Len(seq) |-> seq[n].path]

\* the last component of a path
NameOf(path) == path[Len(path)]

(* C1: a build never rewrites a .mdx document that exists when the build    *)
(* starts: after the step it is still there with the same content, whatever *)
(* the configuration, the imports and the custom imports of that run.       *)
C1_MdxNeverRewritten ==
    [][ pc = "confirmed" =>
          \A p \in DOMAIN files :
              IsMdx(p) => (p \in DOMAIN files' /\ files'[p] = files[p]) ]_vars

\* a run has reached a hand-edited document and left the edit in place
C1_Witness ==
    /\ pc = "done"
    /\ \E n \in 1..Len(log) :
          /\ log[n].what = "mdx"
          /\ log[n].done = "skip"
          /\ fsBefore.files[log[n].path] = Edited
          /\ files[log[n].path] = Edited

(* C2: a build that follows a completed build with the same configuration,  *)
(* imports and custom imports, nothing else having changed, leaves the      *)
(* filesystem as the first build left it, writes no .mdx, and writes every  *)
(* _category_.json again with the content it already had.                   *)
C2_Idempotent ==
    (pc = "done" /\ lastBuild.repeated) =>
        /\ dirs = fsBefore.dirs
        /\ files = fsBefore.files
        /\ \A n \in 1..Len(log) :
              /\ log[n].what = "mdx" => log[n].done = "skip"
              /\ log[n].what = "category" =>
                    /\ log[n].done = "write"
                    /\ files[log[n].path] = fsBefore.files[log[n].path]
        /\ \A c \in DocContainers(config) : Entries(AddrOfPath(c.path), "category") # {}

C2_Witness ==
    /\ pc = "done"
    /\ lastBuild.repeated
    /\ \E n \in 1..Len(log) : log[n].what = "mdx"
    /\ \E n \in 1..Len(log) : log[n].what = "category"

(* C3: within a run the filesystem changes only in the build step, which is *)
(* taken only after validate returned True (no error recorded) and          *)
(* preview_and_confirm returned True; loading, validation and the preview   *)
(* leave it as it was, whatever their outcome.                              *)
C3_NoMutationBeforeGate ==
    [][ (pc' # pc /\ <<dirs, files>>' # <<dirs, files>>) =>
          (pc = "confirmed" /\ errors = <<>> /\ confirm(answer, env)) ]_vars

\* a run has built something
C3_Witness ==
    /\ pc = "done"
    /\ runs = 1
    /\ files # NoFiles
    /\ fsBefore = EmptyFs

(* C8: after a build that completed, the _category_.json of every section   *)
(* and subsection of the configuration holds the descriptor generated from  *)
(* the current configuration, whatever it held before.                      *)
C8_CategoryRegenerated ==
    pc = "done" =>
        \A c \in DocContainers(config) :
            /\ Entries(AddrOfPath(c.path), "category") # {}
            /\ \A n \in Entries(AddrOfPath(c.path), "category") :
                  /\ NameOf(log[n].path) = CategoryName
                  /\ log[n].path \in DOMAIN files
                  /\ files[log[n].path] =
                        IF Len(c.path) = 1
                        THEN generate_section_category(c.node, log[n].index)
                        ELSE generate_subsection_category(c.node, log[n].index)

\* a descriptor that existed with another content has been replaced
C8_Witness ==
    /\ pc = "done"
    /\ \E n \in 1..Len(log) :
          /\ log[n].what = "category"
          /\ log[n].path \in DOMAIN fsBefore.files
          /\ fsBefore.files[log[n].path] # files[log[n].path]

(* C9: in a container none of whose children declares `position`, the       *)
(* builder handles the files in document order, then the subsections in     *)
(* document order; the k-th file gets the counter k and the j-th subsection *)
(* the counter |files| + j, and these counters name them.                   *)
C9_FilesThenSubsections ==
    pc = "done" =>
        \A c \in DocContainers(config) :
            NoChildDeclares(c.node) =>
                LET fs == GetFiles(c.node)
                    ss == GetSubsections(c.node)
                    FileAddr(k) == Append(AddrOfPath(c.path), [k |-> "file", i |-> k])
                    SubAddr(j) == Append(AddrOfPath(c.path), [k |-> "subsection", i |-> j])
                    \* the place in the record of the call for the r-th child
                    Place(r) == IF r <= Len(fs) THEN Entries(FileAddr(r), "mdx")
                                ELSE Entries(SubAddr(r - Len(fs)), "container")
                IN  /\ \A r \in 1..(Len(fs) + Len(ss)) :
                          /\ Cardinality(Place(r)) = 1
                          /\ \A n \in Place(r) :
                                /\ log[n].index = r
                                /\ NameOf(log[n].path) =
                                      IF r <= Len(fs)
                                      THEN generate_numbered_name(r, fs[r].title, MdxExtension)
                                      ELSE generate_numbered_name(r, ss[r - Len(fs)].title, <<>>)
                    /\ \A r1, r2 \in 1..(Len(fs) + Len(ss)) :
                          r1 < r2 => \A n1 \in Place(r1), n2 \in Place(r2) : n1 < n2

\* a container without positions, holding two files and two subsections, built
C9_Witness ==
    /\ pc = "done"
    /\ \E c \in DocContainers(config) :
          /\ NoChildDeclares(c.node)
          /\ Len(GetFiles(c.node)) = 2
          /\ Len(GetSubsections(c.node)) = 2

(* C10: for a configuration that passed validation, the paths the preview   *)
(* lists are, in order, the paths of the builder's FileHandler calls, each  *)
(* for the same node with the same counter.                                 *)
C10_PreviewMatchesBuild ==
    /\ pc = "done" =>
          /\ PathsOf(listing) = PathsOf(log)
          /\ \A n \in 1..Len(log) :
                /\ listing[n].addr = log[n].addr
                /\ listing[n].index = log[n].index
                /\ listing[n].what = log[n].what
    \* the same once the preview is printed, whether or not the build follows
    /\ pc \in {"confirmed", "cancelled"} =>
          PathsOf(listing)
            = PathsOf(build_structure(config, base_docs_path, custom_imports).ops)

\* a built tree with declared positions that reorder the children, and assets
C10_Witness ==
    /\ pc = "done"
    /\ \E n \in 1..Len(log) :
          log[n].what = "mdx" /\ log[n].addr[Len(log[n].addr)].i # log[n].index
    /\ \E n \in 1..Len(log) : log[n].what = "placeholder"

-----------------------------------------------------------------------------
(* Vocabulary of the claims about the prompt and the exit status *)

\* the prompt has been answered in this run
Answered == pc \in {"confirmed", "cancelled", "done"}

\* the lines of PromptAnswers that are 'y' or 'yes' once trimmed and lower-cased
AffirmativeLines ==
    { <<"y">>, <<" ", "Y", " ">>, <<"Y", "e", "s">>, <<"y", "e", "s">> }

ToggleIsYes == env.set /\ env.value = <<"y", "e", "s">>

(* C11: preview_and_confirm returns True only when a line was read that is  *)
(* 'y' or 'yes' once trimmed and lower-cased, or when no line could be read *)
(* and DOC_INIT_AUTO_CONFIRM is exactly 'yes'; a line that was read and is  *)
(* not affirmative gives False whatever the toggle holds.                   *)
C11_ConfirmCases ==
    Answered =>
        /\ pc \in {"confirmed", "done"} =>
              \/ ~answer.eof /\ answer.line \in AffirmativeLines
              \/ answer.eof /\ ToggleIsYes
        /\ (~answer.eof /\ answer.line \notin AffirmativeLines) => pc = "cancelled"

\* a line that is not affirmative was read while the toggle was 'yes'
C11_Witness ==
    /\ pc = "cancelled"
    /\ ~answer.eof
    /\ answer.line = <<"y", "e">>
    /\ ToggleIsYes

(* C12: a run ends with exit status 0 when the build completed or the       *)
(* operator cancelled at the prompt, and with a non-zero status when        *)
(* validation failed, when the configuration could not be loaded, or when   *)
(* an exception was raised; while it runs it has no exit status.            *)
C12_ExitStatus ==
    /\ pc \in {"done", "cancelled"} => exit_code = 0
    /\ pc \in {"invalid", "failed"} => exit_code > 0
    /\ pc \in {"loaded", "validated", "confirmed"} => exit_code = -1
    /\ (pc # "idle" /\ inputs.config \in LoadFailures) => exit_code > 0

\* a second run ended on a failed validation after a first one that built
C12_Witness ==
    /\ pc = "invalid"
    /\ errors # <<>>
    /\ exit_code = 1
    /\ runs = 2
    /\ files # NoFiles

\* the run could not load its configuration
LoadFailed == pc # "idle" /\ inputs.config \in LoadFailures

(* C13: a missing imports template is not fatal: the loader returns the     *)
(* empty text and the run is loaded, goes on to validation, preview and     *)
(* build; a missing (or malformed) configuration file is fatal: the run     *)
(* ends at once with a non-zero status, the validator has recorded nothing, *)
(* nothing is listed and the filesystem and the build record are untouched. *)
C13_ImportsOptionalYamlFatal ==
    /\ [](/\ (pc # "idle" /\ inputs.config = "read" /\ inputs.imports = "missing")
               => imports_template = <<>>
          /\ LoadFailed =>
               (pc = "failed" /\ exit_code > 0 /\ errors = <<>> /\ listing = <<>>))
    /\ [][ /\ (runs' = runs + 1 /\ inputs'.config = "read") => pc' = "loaded"
           /\ (runs' = runs + 1 /\ inputs'.config \in LoadFailures)
                => UNCHANGED <<config, dirs, files, log, fsBefore>> ]_vars

\* without an imports template the run has built its documents, their
\* imports line empty
C13_Witness ==
    /\ pc = "done"
    /\ inputs = [config |-> "read", imports |-> "missing"]
    /\ imports_template = <<>>
    /\ \E n \in 1..Len(log) :
          /\ log[n].what = "mdx"
          /\ log[n].done = "write"
          /\ files[log[n].path][8] = <<>>

-----------------------------------------------------------------------------
(* C14: when a FileHandler call fails during the build, the run ends with a *)
(* non-zero exit status, the calls made are the calls of the walk before    *)
(* the failing one and nothing of a later node is made, and nothing is      *)
(* rolled back: what the earlier calls made and what was there before the   *)
(* run is still there; a run ends with status 0 only after all its calls.   *)
C14_AbortsWithoutRollback ==
    [][ LET ops == build_structure(config, base_docs_path, custom_imports).ops
            made == log'
            \* the calls up to the failing one, included
            upto == 1..(IF Len(made) < Len(ops) THEN Len(made) + 1 ELSE Len(ops))
        IN  /\ (pc = "confirmed" /\ pc' = "done") => PathsOf(made) = PathsOf(ops)
            /\ (pc = "confirmed" /\ pc' = "failed") =>
                  /\ exit_code' > 0
                  /\ Len(made) <= Len(ops)
                  /\ \A n \in 1..Len(made) :
                        /\ made[n].path = ops[n].path
                        /\ made[n].done = "mkdir" => made[n].path \in dirs'
                        /\ made[n].done = "write" =>
                              /\ made[n].path \in DOMAIN files'
                              /\ files'[made[n].path] = ops[n].content
                        /\ made[n].done = "skip" =>
                              /\ made[n].path \in DOMAIN files'
                              /\ files'[made[n].path] = files[made[n].path]
                  /\ dirs \subseteq dirs'
                  /\ \A q \in DOMAIN files :
                        /\ q \in DOMAIN files'
                        /\ \/ files'[q] = files[q]
                           \/ \E n \in upto : ops[n].path = q /\ ops[n].op = "write"
                  /\ (dirs' \ dirs) \subseteq UNION {Prefixes(ops[n].path) : n \in upto}
                  /\ (DOMAIN files' \ DOMAIN files) \subseteq {ops[n].path : n \in upto}
      ]_vars

\* a build stopped by a failing call after it had skipped a document and
\* created a file, on a filesystem that held a tree before; both are there
C14_Witness ==
    /\ pc = "failed"
    /\ exit_code = 1
    /\ fsBefore.dirs # {}
    /\ Len(log) < Len(build_structure(config, base_docs_path, custom_imports).ops)
    /\ \E n \in 1..Len(log) :
          /\ log[n].done = "write"
          /\ log[n].path \notin DOMAIN fsBefore.files
          /\ log[n].path \in DOMAIN files
    /\ \E n \in 1..Len(log) : log[n].done = "skip" /\ log[n].path \in DOMAIN files

-----------------------------------------------------------------------------
(* Vocabulary of the claims about the generated text *)

\* the JSON line `  "key": value` with or without the comma after it
JsonLine(key, value, comma) ==
    <<"  \"" \o key \o "\": ">> \o value \o (IF comma THEN <<",">> ELSE <<>>)

\* the JSON text of a declared position: an integer in decimal, null
DeclaredJson(p) == IF p.t = "int" THEN IntStr(p.v) ELSE <<"null">>

(* C15: after a build, the descriptor of every section and subsection holds *)
(* as `position` the position the node declares, if it declares one, and    *)
(* otherwise the counter its directory is named with.                       *)
C15_CategoryPosition ==
    pc = "done" =>
        \A c \in DocContainers(config) :
            \A n \in Entries(AddrOfPath(c.path), "category") :
                LET rank == log[n].index
                    dir == log[n].path[Len(log[n].path) - 1]
                IN  /\ dir = generate_numbered_name(rank, c.node.title, <<>>)
                    /\ files[log[n].path][3] =
                          JsonLine("position",
                                   IF Declares(c.node) THEN DeclaredJson(c.node.position)
                                   ELSE IntStr(rank),
                                   TRUE)

\* a section that declares position 7 is built as 01-intro, its descriptor
\* holding 7
C15_Witness ==
    /\ pc = "done"
    /\ \E c \in DocContainers(config) :
          /\ Declares(c.node)
          /\ c.node.position = PInt(7)
          /\ \E n \in Entries(AddrOfPath(c.path), "category") :
                /\ log[n].index = 1
                /\ files[log[n].path][3] = <<"  \"position\": ", "7", ",">>

\* what title.lower().replace(' ', '-').replace('&', 'and') is to give for
\* the titles of Titles, written out
SlugOf(title) ==
    CASE title = DataAndModels ->
            <<"d", "a", "t", "a", "-", "a", "n", "d", "-", "m", "o", "d", "e", "l", "s">>
      [] title = Setup -> <<"s", "e", "t", "u", "p">>
      [] title = AmpersandRun ->
            <<"a", "a", "n", "d", "a", "n", "d", "-", "-", "b">>
      [] title = AlreadySlug -> <<"d", "a", "t", "a", "-", "a", "n", "d">>
      [] title = Punctuated -> <<"f", "1", ".", "_", "-">>

Called(fn) == result.done /\ result.fn = fn

\* the ways a front matter may carry the position of a node: the declared
\* integer; for a declared null, YAML's null or else the counter
FrontMatterPositions(item, counter) ==
    IF ~Declares(item) THEN {IntStr(counter)}
    ELSE IF item.position.t = "int" THEN {IntStr(item.position.v)}
    ELSE {<<"n", "u", "l", "l">>, <<"null">>, <<"~">>, <<>>, IntStr(counter)}

(* C16: the front matter of a node is the fence, then id (the declared id,  *)
(* else the slug of the title), title, description (the declared one, else *)
(* the title) and sidebar_position (the declared position, else the         *)
(* counter), in that order, then the fence, and nothing else.  The code     *)
(* writes a declared null position as the text `None`.                      *)
C16_FrontMatterFields ==
    Called("generate") =>
        LET item == arg.item
            fm == result.value
        IN  /\ Len(fm) = 6
            /\ fm[1] = <<"---">>
            /\ fm[2] = <<"id: ">> \o (IF Has(item, "id") THEN CustomId ELSE SlugOf(item.title))
            /\ fm[3] = <<"title: ">> \o item.title
            /\ fm[4] = <<"description: ">>
                         \o (IF Has(item, "description") THEN CustomDescription
                             ELSE item.title)
            /\ \E text \in FrontMatterPositions(item, arg.position) :
                  fm[5] = <<"sidebar_position: ">> \o text
            /\ fm[6] = <<"---">>

\* the text a descriptor line starts with when it holds this key
KeyPieces(key) ==
    CASE key = "label" -> {"  \"label\": \""}
      [] key = "position" -> {"  \"position\": "}
      [] key = "className" -> {"  \"className\": \"sidebar-header\","}
      [] key = "collapsible" -> {"  \"collapsible\": ", "  \"collapsible\": false"}
      [] key = "collapsed" -> {"  \"collapsed\": "}

\* the lines of a descriptor that hold this key
LinesOf(doc, key) == {i \in 1..Len(doc) : doc[i] # <<>> /\ doc[i][1] \in KeyPieces(key)}

HasKey(doc, key) == LinesOf(doc, key) # {}

DescriptorKeys == {"label", "position", "className", "collapsible", "collapsed"}

KeysOf(doc) == {key \in DescriptorKeys : HasKey(doc, key)}

(* C17: a section descriptor has collapsible false and the class            *)
(* sidebar-header whatever `collapsible` and `collapsed` the section holds; *)
(* a subsection descriptor has as collapsible the node's `collapsible` if   *)
(* declared, else true, and as collapsed the node's `collapsed` if          *)
(* declared, else true, each on its own.                                    *)
C17_CollapsibleSettings ==
    /\ Called("generate_section_category") =>
          /\ \E i \in 1..Len(result.value) :
                result.value[i] = <<"  \"collapsible\": false">>
          /\ \E i \in 1..Len(result.value) :
                result.value[i] = <<"  \"className\": \"sidebar-header\",">>
          /\ Cardinality(LinesOf(result.value, "collapsible")) = 1
          /\ Cardinality(LinesOf(result.value, "className")) = 1
    /\ Called("generate_subsection_category") =>
          LET item == arg.item
              Text(b) == IF b THEN <<"true">> ELSE <<"false">>
          IN  /\ \A i \in LinesOf(result.value, "collapsible") :
                    result.value[i] =
                       JsonLine("collapsible",
                                Text(IF Has(item, "collapsible") THEN item.collapsible
                                     ELSE TRUE), TRUE)
              /\ \A i \in LinesOf(result.value, "collapsed") :
                    result.value[i] =
                       JsonLine("collapsed",
                                Text(IF Has(item, "collapsed") THEN item.collapsed
                                     ELSE TRUE), FALSE)
              /\ Cardinality(LinesOf(result.value, "collapsible")) = 1
              /\ Cardinality(LinesOf(result.value, "collapsed")) = 1

\* a subsection that declares only `collapsible: false` gets collapsible
\* false and collapsed true
C17_Witness ==
    /\ Called("generate_subsection_category")
    /\ Has(arg.item, "collapsible")
    /\ ~Has(arg.item, "collapsed")
    /\ ~arg.item.collapsible
    /\ result.value[4] = <<"  \"collapsible\": ", "false", ",">>
    /\ result.value[5] = <<"  \"collapsed\": ", "true">>

(* C18: every descriptor, of a section or of a subsection, holds the keys   *)
(* label, position, className and collapsible; collapsed is held by every   *)
(* subsection descriptor and by no section descriptor.  The code gives a    *)
(* subsection descriptor no className.                                      *)
C18_DescriptorKeys ==
    /\ Called("generate_section_category") =>
          KeysOf(result.value) = {"label", "position", "className", "collapsible"}
    /\ Called("generate_subsection_category") =>
          KeysOf(result.value)
             = {"label", "position", "className", "collapsible", "collapsed"}

-----------------------------------------------------------------------------
(* C19: after a build that completed, every section and subsection with     *)
(* create_assets has the directory assets/ in its own directory, every file *)
(* with create_assets has assets/<name without .mdx>/ in its container's    *)
(* directory, each holding __placeholder__; a placeholder that was there    *)
(* before the run has the content it had, a new one the fixed content; for  *)
(* a node without create_assets the run makes no such directory and no      *)
(* placeholder.                                                             *)
C19_AssetsFolders ==
    pc = "done" =>
        \A c \in DocContainers(config) :
            \A n \in Entries(AddrOfPath(c.path), "category") :
                LET dir == SubSeq(log[n].path, 1, Len(log[n].path) - 1)
                    fs == GetFiles(c.node)
                    Held(assets) ==
                        LET ph == Append(assets, PLACEHOLDER_FILENAME)
                        IN  /\ assets \in dirs
                            /\ ph \in DOMAIN files
                            /\ files[ph] = IF ph \in DOMAIN fsBefore.files
                                           THEN fsBefore.files[ph]
                                           ELSE PLACEHOLDER_CONTENT
                    NotMade(assets) ==
                        LET ph == Append(assets, PLACEHOLDER_FILENAME)
                        IN  /\ ph \in DOMAIN files => ph \in DOMAIN fsBefore.files
                            /\ ph \in DOMAIN files => files[ph] = fsBefore.files[ph]
                    FileAssets(k) ==
                        LET e == CHOOSE m \in Entries(Append(AddrOfPath(c.path),
                                                             [k |-> "file", i |-> k]), "mdx") : TRUE
                            name == NameOf(log[e].path)
                        IN  dir \o << <<"assets">>, SubSeq(name, 1, Len(name) - 1) >>
                IN  /\ IF GetCreateAssets(c.node)
                       THEN Held(Append(dir, <<"assets">>))
                       ELSE /\ NotMade(Append(dir, <<"assets">>))
                            /\ Append(dir, <<"assets">>) \in dirs \ fsBefore.dirs
                                  => \E k \in 1..Len(fs) : GetCreateAssets(fs[k])
                    /\ \A k \in 1..Len(fs) :
                          IF GetCreateAssets(fs[k])
                          THEN Held(FileAssets(k))
                          ELSE /\ NotMade(FileAssets(k))
                               /\ FileAssets(k) \notin dirs \ fsBefore.dirs

\* a build that found one hand-edited placeholder and left it, and made
\* the assets folder of a file in a section that has none of its own
C19_Witness ==
    /\ pc = "done"
    /\ config = FileAssetsDocument
    /\ \E n \in 1..Len(log) :
          /\ log[n].what = "placeholder"
          /\ log[n].done = "skip"
          /\ files[log[n].path] = Edited
    /\ \E n \in 1..Len(log) :
          /\ log[n].what = "placeholder"
          /\ log[n].done = "write"
          /\ files[log[n].path] = PLACEHOLDER_CONTENT

-----------------------------------------------------------------------------
\* a rank of Counters written with two digits
TwoDigits(r) == CASE r = 1 -> <<"0", "1">> [] r = 3 -> <<"0", "3">> [] r = 12 -> <<"1", "2">>

\* the characters a slug may hold: no capital, no space, no ampersand
SlugChars(s) ==
    \A i \in 1..Len(s) : s[i] \notin {" ", "&"} /\ LowerChar(s[i]) = s[i]

(* C20: the slug of a title is the title lower-cased with '-' for each      *)
(* space and 'and' for each '&', every other character kept, and taking the *)
(* slug of a slug changes nothing; the name at rank r is r on two digits,   *)
(* '-', the slug, and '.mdx' for a file. 'Data & Models' gives              *)
(* 'data-and-models', and at rank 3 '03-data-and-models.mdx'.               *)
C20_SlugAndName ==
    /\ Called("sanitize_filename") =>
          /\ result.value = SlugOf(arg.item.title)
          /\ SlugChars(result.value)
          /\ sanitize_filename(result.value) = result.value
    /\ Called("generate_numbered_name") =>
          result.value = TwoDigits(arg.position) \o <<"-">> \o SlugOf(arg.item.title)
    /\ Called("generate_numbered_name.mdx") =>
          result.value = TwoDigits(arg.position) \o <<"-">> \o SlugOf(arg.item.title)
                            \o <<".mdx">>

\* the file titled 'Data & Models' named at rank 3
C20_Witness ==
    /\ Called("generate_numbered_name.mdx")
    /\ arg.item.title = DataAndModels
    /\ arg.position = 3
    /\ result.value = <<"0", "3", "-", "d", "a", "t", "a", "-", "a", "n", "d", "-",
                        "m", "o", "d", "e", "l", "s", ".mdx">>

-----------------------------------------------------------------------------
\* no node of the document holds the key `position`
NoPositions(cfg) ==
    /\ \A i \in 1..Len(GetSections(cfg)) : ~Declares(GetSections(cfg)[i])
    /\ \A c \in DocContainers(cfg) : NoChildDeclares(c.node)

\* one artifact of the projection of a tree
Artifact(path, kind, rank, node) ==
    [path |-> path, kind |-> kind, rank |-> rank, label |-> node.label]

\* the assets folder `folder` with its placeholder, when the node asks for it
AssetsArtifacts(node, folder, rank) ==
    IF GetCreateAssets(node)
    THEN { Artifact(folder, "dir", rank, node),
           Artifact(Append(folder, <<"__placeholder__">>), "placeholder", rank, node) }
    ELSE {}

\* the artifacts of a section or subsection at rank r under `parent`, its
\* files ranked 1..F in document order and its subsections F+1..F+S
RECURSIVE ProjectionOf(_, _, _)
ProjectionOf(node, r, parent) ==
    LET dir == Append(parent, generate_numbered_name(r, node.title, <<>>))
        fs == GetFiles(node)
        ss == GetSubsections(node)
        FileName(i) == generate_numbered_name(i, fs[i].title, <<>>)
    IN  { Artifact(dir, "dir", r, node),
          Artifact(Append(dir, <<"_category_.json">>), "category", r, node) }
        \cup AssetsArtifacts(node, Append(dir, <<"assets">>), r)
        \cup UNION { { Artifact(Append(dir, FileName(i) \o <<".mdx">>), "mdx", i, fs[i]) }
                     \cup AssetsArtifacts(fs[i], dir \o << <<"assets">>, FileName(i) >>, i)
                     : i \in 1..Len(fs) }
        \cup UNION { ProjectionOf(ss[j], Len(fs) + j, dir) : j \in 1..Len(ss) }

\* the projection of a document under docs/
Projection(cfg) ==
    LET root == << <<"docs">>, cfg.section_name >>
    IN  { Artifact(root, "dir", 0, [label |-> <<>>]) }
        \cup UNION { ProjectionOf(GetSections(cfg)[i], i, root)
                     : i \in 1..Len(GetSections(cfg)) }

(* C21: a completed build of a document without positions on an empty       *)
(* filesystem leaves exactly the projection of the tree: the directories of *)
(* the projection with their parents and no other, the files of the         *)
(* projection and no other, each _category_.json with the node's label and  *)
(* its rank (and "collapsible": false for a section), each content          *)
(* document with sidebar_position equal to its rank.  For section Intro     *)
(* holding file Welcome these are docs/guide/01-intro/_category_.json and   *)
(* docs/guide/01-intro/01-welcome.mdx, both with position 1.                *)
C21_ExactProjection ==
    (pc = "done" /\ NoPositions(config)) =>
        LET E == Projection(config)
        IN  /\ dirs = UNION { Prefixes(a.path) : a \in {b \in E : b.kind = "dir"} }
            /\ DOMAIN files = { a.path : a \in {b \in E : b.kind # "dir"} }
            /\ \A a \in E :
                  /\ a.kind = "mdx" =>
                        files[a.path][5] = <<"sidebar_position: ">> \o IntStr(a.rank)
                  /\ a.kind = "category" =>
                        /\ files[a.path][2] = <<"  \"label\": \"">> \o a.label \o <<"\",">>
                        /\ files[a.path][3] = <<"  \"position\": ">> \o IntStr(a.rank) \o <<",">>
                        /\ Len(a.path) = 4 => files[a.path][5] = <<"  \"collapsible\": false">>
                  /\ a.kind = "placeholder" => files[a.path] = PLACEHOLDER_CONTENT

\* the build of section Intro holding file Welcome
C21_Witness ==
    /\ pc = "done"
    /\ config = WelcomeDocument
    /\ dirs = { << <<"docs">> >>, << <<"docs">>, <<"guide">> >>,
                << <<"docs">>, <<"guide">>, <<"0", "1", "-", "i", "n", "t", "r", "o">> >> }
    /\ DOMAIN files =
          { << <<"docs">>, <<"guide">>, <<"0", "1", "-", "i", "n", "t", "r", "o">>,
               <<"_category_.json">> >>,
            << <<"docs">>, <<"guide">>, <<"0", "1", "-", "i", "n", "t", "r", "o">>,
               <<"0", "1", "-", "w", "e", "l", "c", "o", "m", "e", ".mdx">> >> }
    /\ \E p \in DOMAIN files :
          /\ files[p][2] = <<"  \"label\": \"", "I", "n", "t", "r", "o", "\",">>
          /\ files[p][3] = <<"  \"position\": ", "1", ",">>
          /\ files[p][5] = <<"  \"collapsible\": false">>
    /\ \E p \in DOMAIN files : files[p][5] = <<"sidebar_position: ", "1">>

-----------------------------------------------------------------------------
\* the states a run ends in: built, cancelled at the prompt, or failed
\* (validation failed, or an exception ended the run)
Completed == pc = "done"
Cancelled == pc = "cancelled"
Failed == pc \in {"invalid", "failed"}

\* every section, subsection and file of the document has its entry in the
\* record of the build
EveryNodeProcessed ==
    \A c \in DocContainers(config) :
        /\ Entries(AddrOfPath(c.path), "category") # {}
        /\ \A k \in 1..Len(GetFiles(c.node)) :
              Entries(Append(AddrOfPath(c.path), [k |-> "file", i |-> k]), "mdx") # {}

(* C22: every run ends built, cancelled or failed, and stays so; a run is   *)
(* cancelled only by the step of the prompt, which leaves the filesystem as *)
(* it was; the step of the builder ends built or failed, never cancelled,   *)
(* and a built run has processed every node of the tree.                    *)
C22_ThreeFinalStates ==
    /\ <>(Completed \/ Cancelled \/ Failed)
    /\ [][ /\ pc \in Running /\ pc' # pc
           /\ (Completed \/ Cancelled \/ Failed) => pc' = pc
           /\ pc' = "cancelled" =>
                 pc = "validated" /\ dirs' = dirs /\ files' = files /\ log' = log
           /\ pc = "confirmed" => pc' \in {"done", "failed"} ]_vars
    /\ [](Completed => EveryNodeProcessed)

\* a build that was started and failed after its first calls
C22_Witness ==
    /\ pc = "failed"
    /\ log # <<>>
    /\ config = ScenarioDocument

-----------------------------------------------------------------------------
(* C23: in the single-file tool, the paths the preview lists are the paths  *)
(* generate_documentation then creates or writes, with the same numeric     *)
(* prefixes, for every document that passes _validate_config.  The preview  *)
(* walks the sections in document order and numbers the files and the       *)
(* subsections of a section separately; generate_documentation sorts the    *)
(* sections by position and numbers files and subsections with one counter. *)
C23_PreviewMatchesGenerate ==
    pc = "done" =>
        {listing[i].path : i \in 1..Len(listing)} = {log[n].path : n \in 1..Len(log)}

-----------------------------------------------------------------------------
\* the entries of this kind among the errors of the container
OfKind(kind) == SelectSeq(perrors.errs, LAMBDA e : e.kind = kind)

\* every child declares a positive integer and two children declare the same
SharedPositiveInts(c) ==
    /\ Children(c) # <<>>
    /\ EveryChildDeclares(c)
    /\ \A i \in 1..Len(Children(c)) : IsPositiveInt(Children(c)[i].position)
    /\ \E i, k \in 1..Len(Children(c)) :
          i # k /\ Children(c)[i].position.v = Children(c)[k].position.v

(* C24: for a container whose children all declare positive integers, two   *)
(* of them the same, _validate_positions records exactly two entries: the   *)
(* duplicate entry, then the range entry listing the missing values of      *)
(* 1..N and the declared values outside it; and whatever the container, a   *)
(* duplicate entry is never recorded without a range entry.                 *)
C24_DuplicateAndRange ==
    perrors.done =>
        /\ SharedPositiveInts(container) =>
              /\ Len(perrors.errs) = 2
              /\ perrors.errs[1].kind = "duplicate"
              /\ perrors.errs[2].kind = "range"
              /\ perrors.errs[2].missing
                    = Sorted((1..Len(Children(container))) \ DeclaredInts(container))
              /\ perrors.errs[2].missing # <<>>
              /\ perrors.errs[2].extra
                    = Sorted(DeclaredInts(container) \ (1..Len(Children(container))))
        /\ OfKind("duplicate") # <<>> => OfKind("range") # <<>>

\* two children share a value and another declares one beyond N
C24_Witness ==
    /\ perrors.done
    /\ SharedPositiveInts(container)
    /\ Len(Children(container)) = 3
    /\ OfKind("duplicate") # <<>>
    /\ \E i \in 1..Len(perrors.errs) :
          perrors.errs[i].kind = "range" /\ perrors.errs[i].extra # <<>>

-----------------------------------------------------------------------------
\* some file of the document has no `title`
FileWithoutTitle(cfg) ==
    \E c \in DocContainers(cfg) :
        \E k \in 1..Len(GetFiles(c.node)) : ~Has(GetFiles(c.node)[k], "title")

\* some top-level sections declare `position`, others do not
SomeSectionsDeclare(cfg) ==
    /\ \E i \in 1..Len(GetSections(cfg)) : Declares(GetSections(cfg)[i])
    /\ \E i \in 1..Len(GetSections(cfg)) : ~Declares(GetSections(cfg)[i])

\* the walk of the builder raises on this document
WalkRaises(cfg) == ~build_structure(cfg, base_docs_path, <<>>).ok

(* C25: a document that passes validation and on which the builder's walk   *)
(* raises (as it does for a file without title and for top-level sections   *)
(* only some of which declare a position) makes the preview walk raise      *)
(* too: the run never gets to the prompt, it ends with exit status 1 and    *)
(* the filesystem is as it was before the run, nothing built.               *)
C25_FailsInPreview ==
    (Validated /\ ~Rejected) =>
        /\ (FileWithoutTitle(config) \/ SomeSectionsDeclare(config)) => WalkRaises(config)
        /\ WalkRaises(config) =>
              /\ ~preview(config, base_docs_path).ok
              /\ pc \in {"validated", "failed"}
              /\ dirs = {} /\ files = NoFiles /\ log = <<>>
              /\ pc = "failed" => exit_code = 1
        /\ pc = "failed" => WalkRaises(config)

\* a run that failed in the preview on two sections of which one declares a
\* position
C25_Witness ==
    /\ pc = "failed"
    /\ errors = <<>>
    /\ SomeSectionsDeclare(config)
    /\ ~FileWithoutTitle(config)
    /\ exit_code = 1
    /\ dirs = {}

-----------------------------------------------------------------------------
\* the document with the `position` key taken off its top-level sections
WithoutSectionPositions(cfg) ==
    [cfg EXCEPT !.sections =
        [i \in 1..Len(cfg.sections) |->
            [cfg.sections[i] EXCEPT !.keys = @ \ {"position"}, !.position = PNone]]]

\* the counter a walk gave the i-th section of the document
SectionIndexIn(seq, i) ==
    LET n == CHOOSE n \in 1..Len(seq) :
                 seq[n].what = "container" /\ seq[n].addr = <<[k |-> "section", i |-> i]>>
    IN  seq[n].index

(* C26: the positions of the top-level sections have no part in validation: *)
(* the errors of a document are those of the same document without them,    *)
(* so sections declaring positions in part, twice the same or beyond their  *)
(* number are accepted; the preview and the builder number the sections in  *)
(* the order of their positions whenever one is declared.                   *)
C26_SectionPositionsUnchecked ==
    /\ Validated =>
          /\ errors = ValidateErrors(WithoutSectionPositions(config))
          /\ Rejected <=> ~validate(WithoutSectionPositions(config))
    /\ (pc \in {"confirmed", "cancelled", "done"}
        /\ \E i \in 1..Len(GetSections(config)) : Declares(GetSections(config)[i])) =>
          \A i, k \in 1..Len(GetSections(config)) :
              GetSections(config)[i].position.v < GetSections(config)[k].position.v =>
                  /\ SectionIndexIn(listing, i) < SectionIndexIn(listing, k)
                  /\ pc = "done" => SectionIndexIn(log, i) < SectionIndexIn(log, k)

\* two sections declaring the same position are accepted and built, each
\* under its own counter
C26_Witness ==
    /\ pc = "done"
    /\ errors = <<>>
    /\ Len(GetSections(config)) = 2
    /\ GetSections(config)[1].position = PInt(1)
    /\ GetSections(config)[2].position = PInt(1)
    /\ SectionIndexIn(log, 1) = 1
    /\ SectionIndexIn(log, 2) = 2

-----------------------------------------------------------------------------
\* the address of the container reached by the document-order indices `path`
AddrOf(path) ==
    [k \in 1..Len(path) |->
        [k |-> IF k = 1 THEN "section" ELSE "subsection", i |-> path[k]]]

\* the address of the m-th child (files first) of the container at `path`
ChildAddr(c, path, m) ==
    Append(AddrOf(path),
           IF m <= Len(GetFiles(c)) THEN [k |-> "file", i |-> m]
           ELSE [k |-> "subsection", i |-> m - Len(GetFiles(c))])

\* the line of a written file that carries the position
PositionLine(what, index) ==
    IF what = "mdx" THEN <<"sidebar_position: ">> \o IntStr(index)
    ELSE <<"  \"position\": ">> \o IntStr(index) \o <<",">>

(* C27: after a completed build of a validated document, every child of a   *)
(* container whose children declare positions was given the counter equal   *)
(* to its declared position, and the position written into its content      *)
(* document or _category_.json is the number its name starts with.          *)
C27_CounterIsPosition ==
    pc = "done" =>
        \A c \in DocContainers(config) :
            \A m \in 1..Len(Children(c.node)) :
                Declares(Children(c.node)[m]) =>
                    \A n \in 1..Len(log) :
                        (/\ log[n].addr = ChildAddr(c.node, c.path, m)
                         /\ log[n].what \in {"mdx", "category"}) =>
                            /\ Children(c.node)[m].position = PInt(log[n].index)
                            /\ files[log[n].path][IF log[n].what = "mdx" THEN 5 ELSE 3]
                                  = PositionLine(log[n].what, log[n].index)

-----------------------------------------------------------------------------
\* the position lines that carry an integer >= 1
PositiveLines(what) == {PositionLine(what, k) : k \in 1..(MaxPos + MaxChildren)}

(* C28: for a validated document every sidebar_position written into a      *)
(* front matter and every position written into a _category_.json is an     *)
(* integer >= 1, and a container whose children all hold the key `position` *)
(* is accepted only when each declared value is an integer >= 1.            *)
C28_WrittenPositionsPositive ==
    /\ pc = "done" =>
          \A n \in 1..Len(log) :
              (log[n].what \in {"mdx", "category"} /\ log[n].done = "write") =>
                  files[log[n].path][IF log[n].what = "mdx" THEN 5 ELSE 3]
                      \in PositiveLines(log[n].what)
    /\ (Validated /\ ~Rejected) =>
          \A c \in DocContainers(config) :
              EveryChildDeclares(c.node) =>
                  \A m \in 1..Len(Children(c.node)) :
                      /\ Children(c.node)[m].position.t = "int"
                      /\ Children(c.node)[m].position.v >= 1

-----------------------------------------------------------------------------
\* the _category_.json paths of the walk of the current document
CategoryPaths(seq) == {seq[n].path : n \in {k \in 1..Len(seq) : seq[k].what = "category"}}

(* C29: the builder only adds.  Over any sequence of runs with changed      *)
(* documents no step removes a directory or a file, so the existing paths   *)
(* never shrink; a build changes the content of an existing file only when  *)
(* it is a _category_.json at a path of the current document, and the other *)
(* steps of a run change nothing on disk, so what an earlier document left  *)
(* under an old numbered name stays untouched next to what is created.      *)
C29_OnlyAdds ==
    [][ /\ dirs \subseteq dirs'
        /\ DOMAIN files \subseteq DOMAIN files'
        /\ pc = "confirmed" =>
              \A p \in DOMAIN files :
                  files'[p] # files[p] =>
                      p \in CategoryPaths(build_structure(config, base_docs_path,
                                                          custom_imports).ops)
        /\ pc \in {"idle", "loaded", "validated"} => (dirs' = dirs /\ files' = files) ]_vars

\* a second run, of a document that renames the section, has created the new
\* names and left a content document of the first run untouched where it was
C29_Witness ==
    /\ pc = "done"
    /\ runs = 2
    /\ \E n \in 1..Len(log) : log[n].what = "mdx" /\ log[n].done = "write"
    /\ \E p \in DOMAIN fsBefore.files :
          /\ IsMdx(p)
          /\ \A n \in 1..Len(log) : log[n].path # p
          /\ p \in DOMAIN files
          /\ files[p] = fsBefore.files[p]
    /\ \E p \in DOMAIN fsBefore.files :
          p \in CategoryPaths(log) /\ files[p] # fsBefore.files[p]

-----------------------------------------------------------------------------
\* the log entries made for nodes of the document
NodeEntries == {n \in 1..Len(log) : log[n].what \in {"mdx", "category", "container"}}

\* the counters the builder gave the children of the container at `path`
ChildCounters(c, path) ==
    { log[n].index : n \in {k \in NodeEntries :
          \E m \in 1..Len(Children(c)) : log[k].addr = ChildAddr(c, path, m)} }

\* some siblings of the document have the same title
EqualTitles(cfg) ==
    \/ \E i, k \in 1..Len(GetSections(cfg)) :
          i # k /\ GetSections(cfg)[i].title = GetSections(cfg)[k].title
    \/ \E c \in DocContainers(cfg) : \E m, k \in 1..Len(Children(c.node)) :
          m # k /\ Children(c.node)[m].title = Children(c.node)[k].title

(* C30: within one build the paths given to the nodes are pairwise          *)
(* distinct: the children of a container get the counters 1..N and the      *)
(* sections the counters 1..number of sections, so that two nodes never     *)
(* make the same directory nor write the same content document or           *)
(* _category_.json, whatever their titles; a content document is skipped    *)
(* only when its file existed before the run.                               *)
C30_DistinctPaths ==
    pc = "done" =>
        /\ \A n, k \in NodeEntries :
              log[n].path = log[k].path => n = k
        /\ \A c \in DocContainers(config) :
              ChildCounters(c.node, c.path) = 1..Len(Children(c.node))
        /\ {SectionIndexIn(log, i) : i \in 1..Len(GetSections(config))}
              = 1..Len(GetSections(config))
        /\ \A n \in NodeEntries :
              (log[n].what = "mdx" /\ log[n].done # "write") =>
                  log[n].path \in DOMAIN fsBefore.files

\* two sections of the same title, each holding files of the same title,
\* built: each content document written
C30_Witness ==
    /\ pc = "done"
    /\ EqualTitles(config)
    /\ Len(GetSections(config)) = 2
    /\ GetSections(config)[1].title = GetSections(config)[2].title
    /\ Cardinality({log[n].path : n \in {k \in NodeEntries : log[k].what = "mdx"}}) = 6
    /\ \A n \in NodeEntries : log[n].what = "mdx" => log[n].done = "write"

====
